---- MODULE Spec2Model ----
(***************************************************************************)
(* Model of the Caspio MCP gateway: the remote HTTP server with its OAuth   *)
(* authorization-code flow, session store, janitor and dispatch gate       *)
(* (http-server.ts, src/unnamed/part_004), the command executor of the     *)
(* remote and of the local stdio server (src/src/index.ts), and the parts  *)
(* of the backend client they rely on (src/unnamed/part_005).              *)
(*                                                                         *)
(* Strings that the code only compares are modelled as sequences of        *)
(* symbols (the empty string is << >>); identifiers and tokens produced by *)
(* generateId() are positive integers drawn from a counter, and 0 stands   *)
(* for the empty string '' / an absent parameter (both are falsy in the    *)
(* code).  Map iteration order is insertion order, which in this model is  *)
(* ascending id order, since every key is a fresh, larger id.              *)
(***************************************************************************)
EXTENDS Integers, Sequences, FiniteSets, TLC

VARIABLES
    sessions,       \* Map<string, OAuthSession>            (part_004:79)
    pendingAuths,   \* Map<string, PendingAuth>             (part_004:80)
    authCodes,      \* Map<string, {sessionId, expiresAt}>  (part_004:81)
    file,           \* the durable document sessions.json
    now,            \* Date.now()
    nextId,         \* number of values generateId() has produced, plus 1
    inflight,       \* submissions suspended at `await client.testConnection()`
    ticks,          \* number of clock advances so far (bounds the run)
    made,           \* pending records, sessions and token pairs created so
                    \* far (bounds the run)
    resp,           \* what the last step answered
    redeemed,       \* history: codes whose exchange succeeded, in order
    retiredAccess,  \* history: access tokens replaced by a refresh
    retiredRefresh, \* history: refresh tokens replaced by a refresh
    swept,          \* history: access tokens of sessions the janitor removed
    owner,          \* history: access token -> credentials submitted for it
    writable,       \* whether fs.writeFileSync succeeds  (part_004:140-144)
    caspioClient    \* a long-lived CaspioClient: accessToken, refreshToken,
                    \* tokenExpiry  (part_005:65-68)

vars == <<sessions, pendingAuths, authCodes, file, now, nextId, inflight,
          ticks, made, resp, redeemed, retiredAccess, retiredRefresh, swept, owner,
          writable, caspioClient>>

----------------------------------------------------------------------------
(* Bounds of the model *)

MaxAuthorize == 1
MaxSubmit == 1
MaxToken == 2
MaxTicks == 1
MaxInflight == 1
MaxElapse == 3
MaxGrants == 3

(* Program constants *)

SESSION_TTL == 86400000
PENDING_TTL == 600000
CODE_TTL == 600000
SWEEP_INTERVAL == 60000
FIVE_MINUTES == 300000
EXPIRES_IN == 86400

----------------------------------------------------------------------------
(* Values *)

Users == {"alice", "bob"}

EmptyStr == << >>

Credentials(u) ==
    [caspioBaseUrl |-> <<u, "url">>,
     caspioClientId |-> <<u, "id">>,
     caspioClientSecret |-> <<u, "secret">>]

NoCreds ==
    [caspioBaseUrl |-> EmptyStr, caspioClientId |-> EmptyStr,
     caspioClientSecret |-> EmptyStr]

\* A CaspioClient after its constructor (part_005:65-71): no token yet.
\* 0 stands for null; issued counts the tokens the backend has handed out.
NewClient ==
    [accessToken |-> 0, refreshToken |-> 0, tokenExpiry |-> 0, issued |-> 0]

CredsOf(s) ==
    [caspioBaseUrl |-> s.caspioBaseUrl,
     caspioClientId |-> s.caspioClientId,
     caspioClientSecret |-> s.caspioClientSecret]

\* The backend accepts exactly the credentials of its account holders.
BackendAccepts(c) == \E u \in Users : c = Credentials(u)

EmptyMap == [k \in {} |-> 0]

MapSet(m, k, v) == [x \in DOMAIN m \cup {k} |-> IF x = k THEN v ELSE m[x]]

MapDelete(m, K) == [x \in DOMAIN m \ K |-> m[x]]

RECURSIVE SortedKeys(_)
SortedKeys(K) ==
    IF K = {} THEN << >>
    ELSE LET k == CHOOSE x \in K : \A y \in K : x <= y
         IN <<k>> \o SortedKeys(K \ {k})

Falsy(s) == s = EmptyStr

\* params.get('caspio_base_url')?.replace(/\/$/, '')
StripTrailingSlash(s) ==
    IF Len(s) > 0 /\ s[Len(s)] = "/" THEN SubSeq(s, 1, Len(s) - 1) ELSE s

NoBody == [access_token |-> 0, refresh_token |-> 0, expires_in |-> 0,
           auth_id |-> 0, code |-> 0, state |-> EmptyStr,
           location |-> EmptyStr]

\* What a step answered: the endpoint, the HTTP status, the error code or
\* message, whether the WWW-Authenticate hint was sent, the body, and the
\* backend calls the step made (with the credentials of the client that
\* made them).  presented is the pending id, code or token the request
\* carried, verifier its code_verifier; tool and confirm are those of a
\* tools/call.
Response(ep, status, error) ==
    [ep |-> ep, status |-> status, error |-> error, hint |-> FALSE,
     presented |-> 0, verifier |-> EmptyStr, tool |-> "", confirm |-> "",
     where |-> "", body |-> NoBody, client |-> NoCreds, calls |-> << >>]

----------------------------------------------------------------------------
(* Session persistence (part_004:99-164) *)

\* JSON.stringify(data): the members of the object, in the Map's order.
JsonStringify(m) ==
    LET ks == SortedKeys(DOMAIN m)
    IN [i \in 1..Len(ks) |-> <<ks[i], m[ks[i]]>>]

\* Lines 135-140: the document fs.writeFileSync leaves for the store m.
WrittenDocument(m) == [exists |-> TRUE, members |-> JsonStringify(m)]

\* Faulty variant of lines 134-144: the write never fails.
saveSessions_alwaysWrites(m) == WrittenDocument(m)

\* saveSessions(): the document afterwards.  A write that throws is caught
\* and logged (lines 142-144), and the document stays as it was.
saveSessions(m) == IF writable THEN WrittenDocument(m) ELSE file

RECURSIVE LoadMembers(_, _, _)
LoadMembers(members, t, acc) ==
    IF members = << >> THEN acc
    ELSE LET key == Head(members)[1]
             session == Head(members)[2]
         IN LoadMembers(Tail(members), t,
                        IF session.expiresAt > t
                        THEN MapSet(acc, key, session)
                        ELSE acc)

\* Faulty variant of line 111: every member of the document is loaded.
loadSessions_unfiltered(f, t) ==
    IF f.exists
    THEN [k \in {f.members[i][1] : i \in 1..Len(f.members)} |->
            f.members[CHOOSE i \in 1..Len(f.members) : f.members[i][1] = k][2]]
    ELSE EmptyMap

\* loadSessions(): the store a process starting at time t builds from f.
loadSessions(f, t) ==
    IF f.exists THEN LoadMembers(f.members, t, EmptyMap) ELSE EmptyMap

\* Faulty variant of lines 150-153: the store is updated, the document is
\* not written.
setSession_memoryOnly(m, sessionId, session) ==
    [sessions |-> MapSet(m, sessionId, session), file |-> file]

\* setSession(sessionId, session): the store and the document afterwards.
setSession(m, sessionId, session) ==
    LET m2 == MapSet(m, sessionId, session)
    IN [sessions |-> m2, file |-> saveSessions(m2)]

----------------------------------------------------------------------------
(* The janitor (part_004:170-193) *)

\* Faulty variant of line 175: a session is removed once it is older than a
\* code's ten minutes.
SessionExpired_asCode(session, t) == session.createdAt + CODE_TTL <= t

\* Faulty variant of line 175: a session is given a second day.
SessionExpired_late(session, t) == session.expiresAt + SESSION_TTL < t

SessionExpired(session, t) == session.expiresAt < t

\* Faulty variant of line 184: the janitor never finds a pending record old
\* enough to remove.
PendingExpired_never(pending, t) == FALSE

\* Faulty variant of line 184: a pending record counts as expired at the
\* very millisecond its ten minutes end.
PendingExpired_atLimit(pending, t) == pending.createdAt + PENDING_TTL <= t

PendingExpired(pending, t) == pending.createdAt + PENDING_TTL < t

\* Faulty variant of line 449: a code never counts as expired.
CodeExpired_never(code, t) == FALSE

CodeExpired(code, t) == code.expiresAt < t

ExpiredSessions(t) == {k \in DOMAIN sessions : SessionExpired(sessions[k], t)}

JanitorSweep(t) ==
    LET gone == ExpiredSessions(t)
        kept == MapDelete(sessions, gone)
    IN [sessions |-> kept,
        file |-> IF Cardinality(gone) > 0 THEN saveSessions(kept) ELSE file,
        pendingAuths |->
            MapDelete(pendingAuths,
                {k \in DOMAIN pendingAuths : PendingExpired(pendingAuths[k], t)}),
        authCodes |->
            MapDelete(authCodes,
                {k \in DOMAIN authCodes : CodeExpired(authCodes[k], t)})]

----------------------------------------------------------------------------
(* Authorization endpoint (part_004:313-347) *)

ClientCallback == <<"https://client.example/cb">>
NotAUrl == <<"not-a-url">>

AuthorizeRequests ==
    { [response_type |-> "code", redirect_uri |-> ClientCallback,
       state |-> <<"xyz">>, code_challenge |-> <<"abc">>,
       code_challenge_method |-> "S256"],
      [response_type |-> "code", redirect_uri |-> ClientCallback,
       state |-> EmptyStr, code_challenge |-> EmptyStr,
       code_challenge_method |-> ""],
      [response_type |-> "code", redirect_uri |-> NotAUrl,
       state |-> <<"xyz">>, code_challenge |-> EmptyStr,
       code_challenge_method |-> ""],
      [response_type |-> "code", redirect_uri |-> EmptyStr,
       state |-> <<"xyz">>, code_challenge |-> <<"abc">>,
       code_challenge_method |-> "S256"],
      [response_type |-> "token", redirect_uri |-> ClientCallback,
       state |-> <<"xyz">>, code_challenge |-> EmptyStr,
       code_challenge_method |-> ""],
      [response_type |-> "", redirect_uri |-> EmptyStr,
       state |-> EmptyStr, code_challenge |-> EmptyStr,
       code_challenge_method |-> ""] }

\* Faulty variant of lines 329-339: the pending record is stored before the
\* redirect URI is looked at.
handleAuthorize_storesFirst(req) ==
    LET pending == [codeChallenge |-> req.code_challenge,
                    codeChallengeMethod |-> "plain",
                    redirectUri |-> req.redirect_uri,
                    state |-> req.state,
                    creds |-> NoCreds,
                    createdAt |-> now]
    IN IF req.response_type # "code" THEN
           [pendingAuths |-> pendingAuths, nextId |-> nextId,
            resp |-> Response("authorize", 400, "unsupported_response_type")]
       ELSE
           [pendingAuths |-> MapSet(pendingAuths, nextId, pending),
            nextId |-> nextId + 1,
            resp |-> IF Falsy(req.redirect_uri)
                     THEN Response("authorize", 400, "invalid_request")
                     ELSE [Response("authorize", 200, "") EXCEPT
                             !.body = [NoBody EXCEPT !.auth_id = nextId]]]

handleAuthorize(req) ==
    LET unchanged == [pendingAuths |-> pendingAuths, nextId |-> nextId]
    IN
    IF req.response_type # "code" THEN
        unchanged @@ [resp |-> Response("authorize", 400, "unsupported_response_type")]
    ELSE IF Falsy(req.redirect_uri) THEN
        unchanged @@ [resp |-> Response("authorize", 400, "invalid_request")]
    ELSE
        LET authId == nextId
            pending ==
                [codeChallenge |-> req.code_challenge,
                 codeChallengeMethod |->
                    IF req.code_challenge_method = "" THEN "plain"
                    ELSE req.code_challenge_method,
                 redirectUri |-> req.redirect_uri,
                 state |-> req.state,
                 creds |-> NoCreds,
                 createdAt |-> now]
        IN [pendingAuths |-> MapSet(pendingAuths, authId, pending),
            nextId |-> nextId + 1,
            resp |-> [Response("authorize", 200, "") EXCEPT
                        !.body = [NoBody EXCEPT !.auth_id = authId]]]

----------------------------------------------------------------------------
(* Submission endpoint (part_004:352-427) *)

\* Form bodies: alice's credentials as typed and with a trailing slash on
\* the base URL, credentials the backend does not know, and forms with one
\* field left out.  (bob's session comes from the durable document.)
SubmitForms ==
    { Credentials("alice"),       [Credentials("alice") EXCEPT !.caspioBaseUrl = <<"alice", "url", "/">>],
      [Credentials("alice") EXCEPT !.caspioClientSecret = <<"wrong">>],
      [Credentials("alice") EXCEPT !.caspioBaseUrl = <<"/">>],
      [Credentials("alice") EXCEPT !.caspioClientId = EmptyStr],
      [Credentials("alice") EXCEPT !.caspioClientSecret = EmptyStr] }

FreeSlot == CHOOSE n \in 1..(MaxInflight + 1) :
                /\ \A j \in inflight : j.slot # n
                /\ \A k \in 1..(n - 1) : \E j \in inflight : j.slot = k

\* CaspioClient.testConnection (part_005:791-799): authenticate, then list
\* the tables; any failure is swallowed into `false`.
TestConnectionCalls(creds) == << [creds |-> creds, op |-> "authenticate"],
                                 [creds |-> creds, op |-> "listTables"] >>

TestConnectionResults(creds) ==
    IF BackendAccepts(creds) THEN {TRUE, FALSE} ELSE {FALSE}

SubmitBegin_checksFirst(authId, form) ==
    LET caspioBaseUrl == StripTrailingSlash(form.caspioBaseUrl)
        creds == [form EXCEPT !.caspioBaseUrl = caspioBaseUrl]
    IN
    IF authId = 0 \/ authId \notin DOMAIN pendingAuths THEN
        [inflight |-> inflight,
         resp |-> Response("submit", 400, "invalid_request")]
    ELSE
        [inflight |-> inflight \cup
                        {[slot |-> FreeSlot, authId |-> authId, creds |-> creds]},
         resp |-> [Response("submit", 0, "") EXCEPT
                     !.client = creds, !.calls = TestConnectionCalls(creds)]]

\* Lines 352-379: from the form body to the suspension at testConnection.
SubmitBegin(authId, form) ==
    LET caspioBaseUrl == StripTrailingSlash(form.caspioBaseUrl)
        creds == [form EXCEPT !.caspioBaseUrl = caspioBaseUrl]
    IN
    IF authId = 0 \/ authId \notin DOMAIN pendingAuths THEN
        [inflight |-> inflight,
         resp |-> Response("submit", 400, "invalid_request")]
    ELSE IF \/ Falsy(caspioBaseUrl)
            \/ Falsy(form.caspioClientId)
            \/ Falsy(form.caspioClientSecret) THEN
        [inflight |-> inflight,
         resp |-> [Response("submit", 400, "Please fill in all fields")
                     EXCEPT !.body = [NoBody EXCEPT !.auth_id = authId]]]
    ELSE
        [inflight |-> inflight \cup
                        {[slot |-> FreeSlot, authId |-> authId, creds |-> creds]},
         resp |-> [Response("submit", 0, "") EXCEPT
                     !.client = creds, !.calls = TestConnectionCalls(creds)]]

\* new URL(pending.redirectUri) throws a TypeError for a string that is no
\* absolute URL.
IsUrl(s) == s = ClientCallback

\* Line 423.
PendingAfterSubmit(authId) == MapDelete(pendingAuths, {authId})

\* Faulty variant of lines 400-408: the session is stored without the
\* client secret.
NewSession_noSecret(creds) ==
    [caspioBaseUrl |-> creds.caspioBaseUrl,
     caspioClientId |-> creds.caspioClientId,
     caspioClientSecret |-> EmptyStr,
     accessToken |-> 0,
     refreshToken |-> 0,
     expiresAt |-> now + SESSION_TTL,
     createdAt |-> now]

\* Lines 399-408.
NewSession(creds) ==
    [caspioBaseUrl |-> creds.caspioBaseUrl,
     caspioClientId |-> creds.caspioClientId,
     caspioClientSecret |-> creds.caspioClientSecret,
     accessToken |-> 0,
     refreshToken |-> 0,
     expiresAt |-> now + SESSION_TTL,
     createdAt |-> now]

\* Lines 380-383: the check failed, the form is shown again.
SubmitRejected(job) ==
    [sessions |-> sessions, file |-> file,
     pendingAuths |-> pendingAuths, authCodes |-> authCodes,
     nextId |-> nextId,
     resp |-> [Response("submit", 400, "Failed to connect to Caspio")
                 EXCEPT !.body = [NoBody EXCEPT !.auth_id = job.authId]]]

\* Lines 389-427: the check succeeded.
SubmitAccepted(job) ==
    LET unchanged == [sessions |-> sessions, file |-> file,
                      pendingAuths |-> pendingAuths, authCodes |-> authCodes,
                      nextId |-> nextId]
        authId == job.authId
    IN
    IF authId \notin DOMAIN pendingAuths THEN
        \* pendingAuths.get(authId)! is undefined: the assignment at line 391
        \* throws, and the request listener answers 500 (lines 1450-1453).
        unchanged @@ [resp |-> Response("submit", 500, "internal_error")]
    ELSE
        LET pending == [pendingAuths[authId] EXCEPT !.creds = job.creds]
            code == nextId
            sessionId == nextId + 1
            stored == setSession(sessions, sessionId, NewSession(job.creds))
            codes == MapSet(authCodes, code,
                            [sessionId |-> sessionId, expiresAt |-> now + CODE_TTL])
        IN
        IF ~IsUrl(pending.redirectUri) THEN
            \* line 417 throws after the session and the code were stored
            [sessions |-> stored.sessions, file |-> stored.file,
             pendingAuths |-> MapSet(pendingAuths, authId, pending),
             authCodes |-> codes, nextId |-> nextId + 2,
             resp |-> Response("submit", 500, "internal_error")]
        ELSE
            [sessions |-> stored.sessions, file |-> stored.file,
             pendingAuths |-> PendingAfterSubmit(authId),
             authCodes |-> codes, nextId |-> nextId + 2,
             resp |-> [Response("submit", 302, "") EXCEPT
                         !.body = [NoBody EXCEPT
                                     !.code = code,
                                     !.state = pending.state,
                                     !.location = pending.redirectUri]]]

\* Faulty variant of lines 379-383: the result of the check is not looked at.
SubmitResume_unchecked(job, connected) == SubmitAccepted(job)

\* Lines 379-427: the continuation once testConnection has settled.
SubmitResume(job, connected) ==
    IF ~connected THEN SubmitRejected(job) ELSE SubmitAccepted(job)

----------------------------------------------------------------------------
(* Token endpoint (part_004:433-529) *)

\* Faulty variant of line 512: a refresh leaves the refresh token as it was.
IssueTokens_keepsRefresh(session, accessToken, refreshToken) ==
    [session EXCEPT !.accessToken = accessToken,
                    !.refreshToken = IF @ = 0 THEN refreshToken ELSE @,
                    !.expiresAt = now + SESSION_TTL]

\* Faulty variant of lines 511-513: a session that has an access token
\* keeps it, only the refresh token is replaced.
IssueTokens_keepsAccess(session, accessToken, refreshToken) ==
    [session EXCEPT !.accessToken = IF @ = 0 THEN accessToken ELSE @,
                    !.refreshToken = refreshToken,
                    !.expiresAt = now + SESSION_TTL]

\* Faulty variant of line 513: a refresh leaves expiresAt as it was.
IssueTokens_keepsExpiry(session, accessToken, refreshToken) ==
    [session EXCEPT !.accessToken = accessToken,
                    !.refreshToken = refreshToken,
                    !.expiresAt = IF session.accessToken = 0
                                  THEN now + SESSION_TTL ELSE @]

\* Faulty variant of lines 465-467 and 511-513: issuing tokens also restarts
\* the session's createdAt.
IssueTokens_restartsCreatedAt(session, accessToken, refreshToken) ==
    [session EXCEPT !.accessToken = accessToken,
                    !.refreshToken = refreshToken,
                    !.expiresAt = now + SESSION_TTL,
                    !.createdAt = now]

\* Lines 465-467 and 511-513: the session with a new token pair.
IssueTokens(session, accessToken, refreshToken) ==
    [session EXCEPT !.accessToken = accessToken,
                    !.refreshToken = refreshToken,
                    !.expiresAt = now + SESSION_TTL]

\* Faulty variant of line 473: the code stays in the registry.
CodesAfterExchange_kept(code) == authCodes

\* Line 473.
CodesAfterExchange(code) == MapDelete(authCodes, {code})

TokenBody(accessToken, refreshToken) ==
    [NoBody EXCEPT !.access_token = accessToken,
                   !.refresh_token = refreshToken,
                   !.expires_in = EXPIRES_IN]

\* Faulty variant of lines 492-504: when no session holds the refresh token
\* the first session of the store is taken.
FindByRefreshToken_fallback(refreshToken) ==
    LET hits == {k \in DOMAIN sessions : sessions[k].refreshToken = refreshToken}
        pool == IF hits = {} THEN DOMAIN sessions ELSE hits
    IN IF pool = {} THEN 0 ELSE CHOOSE k \in pool : \A j \in pool : k <= j

\* Lines 492-500: the first session, in Map order, holding the refresh token.
FindByRefreshToken(refreshToken) ==
    LET hits == {k \in DOMAIN sessions : sessions[k].refreshToken = refreshToken}
    IN IF hits = {} THEN 0 ELSE CHOOSE k \in hits : \A j \in hits : k <= j

\* Lines 439-481: the authorization_code grant.  code_verifier (line 441)
\* is read into a constant that nothing uses.
ExchangeCode(req) ==
    LET unchanged == [sessions |-> sessions, file |-> file,
                      authCodes |-> authCodes, nextId |-> nextId]
    IN
    IF req.code = 0 \/ req.code \notin DOMAIN authCodes THEN
        unchanged @@ [resp |-> Response("token", 400, "invalid_grant")]
    ELSE IF CodeExpired(authCodes[req.code], now) THEN
        [unchanged EXCEPT !.authCodes = MapDelete(authCodes, {req.code})]
        @@ [resp |-> Response("token", 400, "invalid_grant")]
    ELSE IF authCodes[req.code].sessionId \notin DOMAIN sessions THEN
        unchanged @@ [resp |-> Response("token", 400, "invalid_grant")]
    ELSE
        LET sessionId == authCodes[req.code].sessionId
            accessToken == nextId
            refreshToken == nextId + 1
            stored == setSession(sessions, sessionId,
                        IssueTokens(sessions[sessionId], accessToken, refreshToken))
        IN [sessions |-> stored.sessions, file |-> stored.file,
            authCodes |-> CodesAfterExchange(req.code),
            nextId |-> nextId + 2,
            resp |-> [Response("token", 200, "") EXCEPT
                        !.body = TokenBody(accessToken, refreshToken)]]

\* Lines 483-524: the refresh_token grant.
RefreshGrant(req) ==
    LET unchanged == [sessions |-> sessions, file |-> file,
                      authCodes |-> authCodes, nextId |-> nextId]
    IN
    IF req.refresh_token = 0 THEN
        unchanged @@ [resp |-> Response("token", 400, "invalid_request")]
    ELSE IF FindByRefreshToken(req.refresh_token) = 0 THEN
        unchanged @@ [resp |-> Response("token", 400, "invalid_grant")]
    ELSE
        LET foundSessionId == FindByRefreshToken(req.refresh_token)
            newAccessToken == nextId
            newRefreshToken == nextId + 1
            stored == setSession(sessions, foundSessionId,
                        IssueTokens(sessions[foundSessionId],
                                    newAccessToken, newRefreshToken))
        IN [sessions |-> stored.sessions, file |-> stored.file,
            authCodes |-> authCodes,
            nextId |-> nextId + 2,
            resp |-> [Response("token", 200, "") EXCEPT
                        !.body = TokenBody(newAccessToken, newRefreshToken)]]

\* Faulty variant of lines 439-459: an exchange without a code_verifier is
\* refused.
handleToken_wantsVerifier(req) ==
    IF req.grant_type = "authorization_code" THEN
        IF req.code_verifier = EmptyStr
        THEN [sessions |-> sessions, file |-> file, authCodes |-> authCodes,
              nextId |-> nextId,
              resp |-> Response("token", 400, "invalid_grant")]
        ELSE ExchangeCode(req)
    ELSE IF req.grant_type = "refresh_token" THEN RefreshGrant(req)
    ELSE [sessions |-> sessions, file |-> file, authCodes |-> authCodes,
          nextId |-> nextId,
          resp |-> Response("token", 400, "unsupported_grant_type")]

handleToken(req) ==
    IF req.grant_type = "authorization_code" THEN ExchangeCode(req)
    ELSE IF req.grant_type = "refresh_token" THEN RefreshGrant(req)
    ELSE [sessions |-> sessions, file |-> file, authCodes |-> authCodes,
          nextId |-> nextId,
          resp |-> Response("token", 400, "unsupported_grant_type")]

----------------------------------------------------------------------------
(* Command executor (part_004:1089-1218, index.ts:908-1107) *)

\* Values a caller can put in args.confirm, written as JavaScript literals.
ConfirmValues ==
    {"undefined", "false", "null", "0", "''", "'false'", "1", "{}", "true"}

\* JavaScript's ToBoolean on those values.
Truthy(v) == v \notin {"undefined", "false", "null", "0", "''"}

\* The guard `if (!args.confirm) throw ...` lets the call through.
Confirmed(args) == Truthy(args.confirm)

NotConfirmed == "Deletion not confirmed. Set confirm=true to proceed."

\* The client methods each tool of the remote server calls, in order.
HttpCatalog ==
    [caspio_list_tables |-> <<"listTables">>,
     caspio_get_table_schema |-> <<"getTableDefinition">>,
     caspio_create_table |-> <<"createTable">>,
     caspio_delete_table |-> <<"deleteTable">>,
     caspio_add_field |-> <<"addField">>,
     caspio_delete_field |-> <<"deleteField">>,
     caspio_get_records |-> <<"getRecords">>,
     caspio_create_record |-> <<"createRecord">>,
     caspio_create_records |-> <<"createRecords">>,
     caspio_update_records |-> <<"updateRecords">>,
     caspio_delete_records |-> <<"deleteRecords">>,
     caspio_list_views |-> <<"listViews">>,
     caspio_get_view_schema |-> <<"getViewDefinition">>,
     caspio_get_view_records |-> <<"getViewRecords">>,
     caspio_list_applications |-> <<"listApplications">>,
     caspio_get_application |-> <<"getApplication">>,
     caspio_list_files |-> <<"listFiles">>,
     caspio_get_file_metadata |-> <<"getFileMetadata">>,
     caspio_delete_file |-> <<"deleteFile">>,
     caspio_list_tasks |-> <<"listTasks">>,
     caspio_get_task |-> <<"getTask">>,
     caspio_run_task |-> <<"runTask">>,
     caspio_test_connection |-> <<"listTables">>,
     caspio_get_account_summary |->
        <<"listTables", "listViews", "listApplications">>]

\* Faulty variant of line 1186: delete_file goes ahead without the test.
HttpGuarded_fileUnguarded ==
    {"caspio_delete_table", "caspio_delete_field", "caspio_delete_records"}

\* The tools of the remote server that test args.confirm first.
HttpGuarded ==
    {"caspio_delete_table", "caspio_delete_field", "caspio_delete_records",
     "caspio_delete_file"}

\* The local stdio server: the same tools (get_table_schema also reads the
\* fields) and the directory tools.
StdioCatalog ==
    [caspio_get_table_schema |-> <<"getTableDefinition", "getTableFields">>,
     caspio_list_directories |-> <<"listDirectories">>,
     caspio_get_directory |-> <<"getDirectory">>,
     caspio_list_directory_users |-> <<"listDirectoryUsers">>,
     caspio_get_directory_user |-> <<"getDirectoryUser">>,
     caspio_create_directory_user |-> <<"createDirectoryUser">>,
     caspio_update_directory_user |-> <<"updateDirectoryUser">>,
     caspio_delete_directory_user |-> <<"deleteDirectoryUser">>,
     caspio_activate_directory_user |-> <<"activateDirectoryUser">>,
     caspio_deactivate_directory_user |-> <<"deactivateDirectoryUser">>,
     caspio_authenticate_directory_user |-> <<"authenticateDirectoryUser">>]
    @@ HttpCatalog

StdioGuarded == HttpGuarded \cup {"caspio_delete_directory_user"}

\* The backend's delete operations.
DeleteOps == {"deleteTable", "deleteField", "deleteRecords", "deleteFile",
              "deleteDirectoryUser"}

\* What the backend does with the calls of one tool.
BackendOutcomes == {"ok", "auth_rejected", "api_error"}

\* CaspioClient.request (part_005:174-217) on a client holding no token:
\* ensureAuthenticated() fetches a token, then the API is called; a
\* rejection throws out of the first call that meets it.
BackendCalls(creds, ops, outcome) ==
    LET auth == << [creds |-> creds, op |-> "authenticate"] >>
    IN IF ops = << >> THEN << >>
       ELSE IF outcome = "auth_rejected" THEN auth
       ELSE IF outcome = "api_error" THEN auth \o << [creds |-> creds, op |-> ops[1]] >>
       ELSE auth \o [i \in 1..Len(ops) |-> [creds |-> creds, op |-> ops[i]]]

BackendError(outcome) ==
    IF outcome = "auth_rejected" THEN "Authentication failed: 401 - backend text"
    ELSE IF outcome = "api_error" THEN "API request failed: 500 - backend text"
    ELSE ""

\* executeTool(name, args, client): the backend calls made and the error
\* thrown ("" when the tool returns its result).
ExecuteWith(catalog, guarded, name, args, creds, outcome) ==
    IF name \notin DOMAIN catalog THEN
        [calls |-> << >>, error |-> "Unknown tool"]
    ELSE IF name \in guarded /\ ~Confirmed(args) THEN
        [calls |-> << >>, error |-> NotConfirmed]
    ELSE
        [calls |-> BackendCalls(creds, catalog[name], outcome),
         error |-> IF name = "caspio_test_connection" THEN ""
                   ELSE BackendError(outcome)]

\* part_004:1089-1218
executeTool(name, args, creds, outcome) ==
    ExecuteWith(HttpCatalog, HttpGuarded, name, args, creds, outcome)

\* index.ts:908-1107
stdioExecuteTool(name, args, creds, outcome) ==
    ExecuteWith(StdioCatalog, StdioGuarded, name, args, creds, outcome)

----------------------------------------------------------------------------
(* Protocol endpoint and dispatch gate (part_004:533-644, 1008-1087) *)

NoHeader == [scheme |-> "none", token |-> 0]

\* Faulty variant of lines 533-546: the scheme of the header is not looked at.
getSessionFromRequest_anyScheme(header) ==
    LET hits == {k \in DOMAIN sessions : sessions[k].accessToken = header.token}
    IN IF hits = {} THEN 0 ELSE CHOOSE k \in hits : \A j \in hits : k <= j

\* Faulty variant of lines 539-543: once some session holds the token, the
\* first session of the store is returned.
getSessionFromRequest_first(header) ==
    IF header.scheme # "Bearer" THEN 0
    ELSE LET hits == {k \in DOMAIN sessions :
                        sessions[k].accessToken = header.token}
         IN IF hits = {} THEN 0
            ELSE CHOOSE k \in DOMAIN sessions : \A j \in DOMAIN sessions : k <= j

\* getSessionFromRequest: the id of the first session, in Map order, whose
\* access token equals the bearer token; 0 for null.
getSessionFromRequest(header) ==
    IF header.scheme # "Bearer" THEN 0
    ELSE LET hits == {k \in DOMAIN sessions :
                        sessions[k].accessToken = header.token}
         IN IF hits = {} THEN 0 ELSE CHOOSE k \in hits : \A j \in hits : k <= j

unauthenticatedMethods ==
    {"initialize", "tools/list", "notifications/initialized",
     "resources/list", "resources/read"}

\* handleMcpMethodUnauthenticated: the error thrown, "" for a result.
handleMcpMethodUnauthenticated(method) ==
    IF method = "resources/read" THEN "Resources not available"
    ELSE IF method \in unauthenticatedMethods THEN ""
    ELSE "Method requires authentication"

\* handleMcpMethodAuthenticated: resources/list and resources/read never get
\* here, the allow-list answers them first.
handleMcpMethodAuthenticated(req, creds, outcome) ==
    IF req.method = "tools/call" THEN
        executeTool(req.name, req.arguments, creds, outcome)
    ELSE [calls |-> << >>, error |-> "Unknown method"]

\* Faulty variant of lines 584-607: the bearer is resolved before the
\* allow-list is looked at.
handleMcpRequest_gateFirst(req, outcome) ==
    IF req.body = "empty" THEN
        Response("mcp", 200, "")
    ELSE IF req.body = "invalid" THEN
        Response("mcp", 400, "Parse error: Invalid JSON")
    ELSE IF req.body = "null" THEN
        Response("mcp", 500, "internal_error")
    ELSE IF getSessionFromRequest(req.header) = 0 THEN
        [Response("mcp", 401, "unauthorized") EXCEPT !.hint = TRUE]
    ELSE IF req.method \in unauthenticatedMethods THEN
        Response("mcp", 200, handleMcpMethodUnauthenticated(req.method))
    ELSE
        LET session == sessions[getSessionFromRequest(req.header)]
            creds == CredsOf(session)
            done == handleMcpMethodAuthenticated(req, creds, outcome)
        IN [Response("mcp", 200, done.error) EXCEPT
              !.client = creds, !.calls = done.calls]

handleMcpRequest(req, outcome) ==
    IF req.body = "empty" THEN
        Response("mcp", 200, "")
    ELSE IF req.body = "invalid" THEN
        Response("mcp", 400, "Parse error: Invalid JSON")
    ELSE IF req.body = "null" THEN
        \* JSON.parse gives null; reading rpcRequest.method at line 582
        \* throws, and the request listener answers 500.
        Response("mcp", 500, "internal_error")
    ELSE
    \* JSON.parse of a number gives a value whose .method is undefined.
    LET rpcRequest == IF req.body = "number"
                      THEN [req EXCEPT !.method = "undefined"] ELSE req
    IN
    IF rpcRequest.method \in unauthenticatedMethods THEN
        Response("mcp", 200, handleMcpMethodUnauthenticated(rpcRequest.method))
    ELSE IF getSessionFromRequest(req.header) = 0 THEN
        [Response("mcp", 401, "unauthorized") EXCEPT !.hint = TRUE]
    ELSE
        LET session == sessions[getSessionFromRequest(req.header)]
            creds == CredsOf(session)
            done == handleMcpMethodAuthenticated(rpcRequest, creds, outcome)
        IN [Response("mcp", 200, done.error) EXCEPT
              !.client = creds, !.calls = done.calls]

----------------------------------------------------------------------------
(* Requests the environment sends *)

\* Every value generateId() has produced so far, and 0 for '' / absent.
KnownIds == 0..(nextId - 1)

\* A value generateId() never returned.
Forged == 0 - 1

Range(f) == {f[x] : x \in DOMAIN f}

\* The requests below present every value that is live in a registry, every
\* value that once was (a redeemed code, a rotated or swept token), the
\* empty value and a forged one.  Any other value takes the same path
\* through its handler as the forged one.
PendingInputs == DOMAIN pendingAuths \cup {0, Forged}

CodeInputs == DOMAIN authCodes \cup Range(redeemed) \cup {0, Forged}

RefreshInputs ==
    {sessions[k].refreshToken : k \in DOMAIN sessions}
    \cup retiredRefresh \cup {0, Forged}

BearerInputs ==
    {sessions[k].accessToken : k \in DOMAIN sessions}
    \cup retiredAccess \cup swept \cup {0, Forged}

TokenRequestsOver(codes, refreshTokens) ==
    [grant_type : {"authorization_code"}, code : codes,
     code_verifier : {EmptyStr, <<"other">>}, refresh_token : {0}]
    \cup
    [grant_type : {"refresh_token"}, code : {0},
     code_verifier : {EmptyStr}, refresh_token : refreshTokens]
    \cup
    [grant_type : {"password"}, code : {0},
     code_verifier : {EmptyStr}, refresh_token : {0}]

TokenRequests == TokenRequestsOver(CodeInputs, RefreshInputs)

HeadersOver(tokens) ==
    {NoHeader, [scheme |-> "Basic", token |-> 0]}
    \cup [scheme : {"Bearer"}, token : tokens]

Headers == HeadersOver(BearerInputs)

McpMethods == unauthenticatedMethods \cup {"tools/call", "ping"}

\* Protocol requests over the given headers, tools and confirm values.
McpRequestsOver(headers, tools, confirms) ==
    [body : {"empty", "invalid", "null", "number"}, header : headers,
     method : {"initialize"}, name : {"caspio_list_tables"},
     arguments : [confirm : {"undefined"}, where : {"undefined"}]]
    \cup
    [body : {"envelope"}, header : headers, method : McpMethods,
     name : tools, arguments : [confirm : confirms, where : {"undefined"}]]

\* The requests the Mcp action sends.  A body that is no envelope and an
\* allow-listed method are answered before the header is read, so they are
\* sent without one.
McpRequests ==
    { r \in McpRequestsOver(Headers, {"caspio_list_tables"}, {"undefined"}) :
        (r.body # "envelope" \/ r.method \in unauthenticatedMethods)
            => r.header = NoHeader }

\* Ten minutes, a day, a day and ten minutes.
TickDeltas == {CODE_TTL, SESSION_TTL, SESSION_TTL + CODE_TTL}

----------------------------------------------------------------------------
(* The state machine *)

\* The durable document a starting process may find: none, or the one an
\* earlier run left behind, here with bob's session and its issued tokens.
PriorSession ==
    [caspioBaseUrl |-> Credentials("bob").caspioBaseUrl,
     caspioClientId |-> Credentials("bob").caspioClientId,
     caspioClientSecret |-> Credentials("bob").caspioClientSecret,
     accessToken |-> 2,
     refreshToken |-> 3,
     expiresAt |-> SESSION_TTL,
     createdAt |-> 0]

PriorDocuments ==
    { [exists |-> FALSE, members |-> << >>],
      WrittenDocument(MapSet(EmptyMap, 1, PriorSession)) }

\* The values generateId() produced in the run that wrote the document.
PriorIds(doc) ==
    UNION { {doc.members[i][1], doc.members[i][2].accessToken,
             doc.members[i][2].refreshToken} : i \in 1..Len(doc.members) }

PriorOwner(doc) ==
    LET byToken(t) ==
            CHOOSE i \in 1..Len(doc.members) :
                t \in {doc.members[i][2].accessToken, doc.members[i][2].refreshToken}
        tokens == PriorIds(doc) \ {doc.members[i][1] : i \in 1..Len(doc.members)}
    IN [t \in tokens |-> CredsOf(doc.members[byToken(t)][2])]

\* The first value generateId() returns in this run: one that no earlier
\* run produced.
FirstId ==
    LET used == UNION {PriorIds(doc) : doc \in PriorDocuments}
    IN 1 + CHOOSE n \in used : \A m \in used : m <= n

\* Init: the module has been loaded, loadSessions() has run (line 167).
Init ==
    /\ file \in PriorDocuments
    /\ now = 0
    /\ sessions = loadSessions(file, now)
    /\ pendingAuths = EmptyMap
    /\ authCodes = EmptyMap
    /\ nextId = FirstId
    /\ inflight = {}
    /\ ticks = 0
    /\ made = [authorize |-> 0, submit |-> 0, token |-> 0]
    /\ resp = Response("start", 0, "")
    /\ redeemed = << >>
    /\ retiredAccess = {}
    /\ retiredRefresh = {}
    /\ swept = {}
    /\ owner = PriorOwner(file)
    /\ writable = TRUE
    /\ caspioClient = NewClient

Authorize ==
    \E req \in AuthorizeRequests :
        LET r == handleAuthorize(req)
            n == IF r.nextId = nextId THEN 0 ELSE 1
        IN /\ made.authorize + n <= MaxAuthorize
           /\ made' = [made EXCEPT !.authorize = @ + n]
           /\ pendingAuths' = r.pendingAuths
           /\ nextId' = r.nextId
           /\ resp' = r.resp
           /\ UNCHANGED <<sessions, authCodes, file, now, inflight, ticks,
                          redeemed, retiredAccess, retiredRefresh, swept, owner, writable, caspioClient>>

Submit ==
    \E authId \in PendingInputs, form \in SubmitForms :
        LET r == SubmitBegin(authId, form)
        IN /\ Cardinality(r.inflight) <= MaxInflight
           /\ inflight' = r.inflight
           /\ resp' = [r.resp EXCEPT !.presented = authId]
           /\ UNCHANGED <<sessions, pendingAuths, authCodes, file, now, nextId,
                          ticks, made, redeemed, retiredAccess, retiredRefresh,
                          swept, owner, writable, caspioClient>>

SubmitSettle ==
    \E job \in inflight :
        \E connected \in TestConnectionResults(job.creds) :
            LET r == SubmitResume(job, connected)
                n == IF r.nextId = nextId THEN 0 ELSE 1
            IN /\ made.submit + n <= MaxSubmit
               /\ made' = [made EXCEPT !.submit = @ + n]
               /\ inflight' = inflight \ {job}
               /\ sessions' = r.sessions
               /\ file' = r.file
               /\ pendingAuths' = r.pendingAuths
               /\ authCodes' = r.authCodes
               /\ nextId' = r.nextId
               /\ resp' = [r.resp EXCEPT !.presented = job.authId]
               /\ owner' = IF r.nextId # nextId
                           THEN MapSet(owner, nextId, job.creds)
                           ELSE owner
               /\ UNCHANGED <<now, ticks, redeemed, retiredAccess,
                              retiredRefresh, swept, writable, caspioClient>>

Token ==
    \E req \in TokenRequests :
        LET r == handleToken(req)
            ok == r.resp.status = 200
            presented == IF req.grant_type = "authorization_code"
                         THEN req.code ELSE req.refresh_token
            old == IF req.grant_type = "refresh_token" /\ ok
                   THEN sessions[FindByRefreshToken(req.refresh_token)]
                   ELSE NewSession(NoCreds)
            n == IF ok THEN 1 ELSE 0
        IN /\ made.token + n <= MaxToken
           /\ made' = [made EXCEPT !.token = @ + n]
           /\ sessions' = r.sessions
           /\ file' = r.file
           /\ authCodes' = r.authCodes
           /\ nextId' = r.nextId
           /\ resp' = [r.resp EXCEPT !.presented = presented,
                                     !.verifier = req.code_verifier]
           /\ redeemed' = IF ok /\ req.grant_type = "authorization_code"
                          THEN Append(redeemed, req.code) ELSE redeemed
           /\ retiredAccess' = retiredAccess \cup ({old.accessToken} \ {0})
           /\ retiredRefresh' = retiredRefresh \cup ({old.refreshToken} \ {0})
           /\ owner' = IF ok /\ presented \in DOMAIN owner
                       THEN MapSet(MapSet(owner, r.resp.body.access_token,
                                          owner[presented]),
                                   r.resp.body.refresh_token, owner[presented])
                       ELSE owner
           /\ UNCHANGED <<pendingAuths, now, inflight, ticks, swept, writable, caspioClient>>

\* The answer to one POST /mcp, with what the request carried.
McpAnswer(req, outcome) ==
    LET call == req.body = "envelope" /\ req.method = "tools/call"
    IN [handleMcpRequest(req, outcome) EXCEPT
          !.presented = req.header.token,
          !.tool = IF call THEN req.name ELSE "",
          !.confirm = IF call THEN req.arguments.confirm ELSE "",
          !.where = IF call THEN req.arguments.where ELSE ""]

Mcp ==
    \E req \in McpRequests :
        /\ resp' = McpAnswer(req, "ok")
        /\ UNCHANGED <<sessions, pendingAuths, authCodes, file, now, nextId,
                       inflight, ticks, made, redeemed, retiredAccess,
                       retiredRefresh, swept, owner, writable, caspioClient>>

Janitor ==
    LET r == JanitorSweep(now)
    IN /\ sessions' = r.sessions
       /\ file' = r.file
       /\ pendingAuths' = r.pendingAuths
       /\ authCodes' = r.authCodes
       /\ resp' = Response("janitor", 0, "")
       /\ swept' = swept \cup
                   ({sessions[k].accessToken : k \in ExpiredSessions(now)} \ {0})
       /\ UNCHANGED <<now, nextId, inflight, ticks, made, redeemed,
                      retiredAccess, retiredRefresh, owner, writable, caspioClient>>

Tick ==
    \E d \in TickDeltas :
        /\ ticks < MaxTicks
        /\ now' = now + d
        /\ ticks' = ticks + 1
        /\ resp' = Response("tick", 0, "")
        /\ UNCHANGED <<sessions, pendingAuths, authCodes, file, nextId,
                       inflight, made, redeemed, retiredAccess, retiredRefresh,
                       swept, owner, writable, caspioClient>>

\* The process exits and starts again: the three Maps are rebuilt, the
\* store from the durable document (lines 79-81 and 167).
Restart ==
    /\ sessions' = loadSessions(file, now)
    /\ pendingAuths' = EmptyMap
    /\ authCodes' = EmptyMap
    /\ inflight' = {}
    /\ resp' = Response("restart", 0, "")
    /\ UNCHANGED <<file, now, nextId, ticks, made, redeemed, retiredAccess,
                   retiredRefresh, swept, owner, writable, caspioClient>>

Next ==
    \/ Authorize
    \/ Submit
    \/ SubmitSettle
    \/ Token
    \/ Mcp
    \/ Janitor
    \/ Tick
    \/ Restart

Spec == Init /\ [][Next]_vars

----------------------------------------------------------------------------
(* The gateway started on the document of an interrupted authorization *)

\* bob's session as handleAuthorizeSubmit stored it (lines 400-408), in a
\* run that ended before the code was exchanged: the tokens are still ''.
InterruptedSession ==
    [PriorSession EXCEPT !.accessToken = 0, !.refreshToken = 0]

InterruptedDocument == WrittenDocument(MapSet(EmptyMap, 1, InterruptedSession))

InitInterrupted ==
    /\ file = InterruptedDocument
    /\ now = 0
    /\ sessions = loadSessions(file, now)
    /\ pendingAuths = EmptyMap
    /\ authCodes = EmptyMap
    /\ nextId = FirstId
    /\ inflight = {}
    /\ ticks = 0
    /\ made = [authorize |-> 0, submit |-> 0, token |-> 0]
    /\ resp = Response("start", 0, "")
    /\ redeemed = << >>
    /\ retiredAccess = {}
    /\ retiredRefresh = {}
    /\ swept = {}
    /\ owner = EmptyMap
    /\ writable = TRUE
    /\ caspioClient = NewClient

SpecInterrupted == InitInterrupted /\ [][Next]_vars

----------------------------------------------------------------------------
(* The authorization endpoints under concurrent submissions: one more
   submission may be suspended, and one more may complete, than in Spec *)

MaxConcurrent == MaxInflight + 1

MaxCompleted == MaxSubmit + 1

\* handleAuthorizeSubmit up to its await (lines 352-379).
ConcurrentSubmit ==
    \E authId \in PendingInputs, form \in SubmitForms :
        /\ Cardinality(inflight) < MaxConcurrent
        /\ LET r == SubmitBegin(authId, form)
           IN /\ inflight' = r.inflight
              /\ resp' = [r.resp EXCEPT !.presented = authId]
        /\ UNCHANGED <<sessions, pendingAuths, authCodes, file, now, nextId,
                       ticks, made, redeemed, retiredAccess, retiredRefresh,
                       swept, owner, writable, caspioClient>>

\* handleAuthorizeSubmit from the result of testConnection to its end
\* (lines 379-427), for any of the suspended submissions.
ConcurrentSettle ==
    \E job \in inflight :
        \E connected \in TestConnectionResults(job.creds) :
            LET r == SubmitResume(job, connected)
                n == IF r.nextId = nextId THEN 0 ELSE 1
            IN /\ made.submit + n <= MaxCompleted
               /\ made' = [made EXCEPT !.submit = @ + n]
               /\ inflight' = inflight \ {job}
               /\ sessions' = r.sessions
               /\ file' = r.file
               /\ pendingAuths' = r.pendingAuths
               /\ authCodes' = r.authCodes
               /\ nextId' = r.nextId
               /\ resp' = [r.resp EXCEPT !.presented = job.authId]
               /\ owner' = IF r.nextId # nextId
                           THEN MapSet(owner, nextId, job.creds)
                           ELSE owner
               /\ UNCHANGED <<now, ticks, redeemed, retiredAccess,
                              retiredRefresh, swept, writable, caspioClient>>

NextConcurrent ==
    \/ Authorize
    \/ ConcurrentSubmit
    \/ ConcurrentSettle

SpecConcurrent == Init /\ [][NextConcurrent]_vars

----------------------------------------------------------------------------
(* The gateway on a data directory that is writable, or one on which every
   write fails (full disk, lost permission) *)

InitDisk ==
    /\ file \in PriorDocuments
    /\ now = 0
    /\ sessions = loadSessions(file, now)
    /\ pendingAuths = EmptyMap
    /\ authCodes = EmptyMap
    /\ nextId = FirstId
    /\ inflight = {}
    /\ ticks = 0
    /\ made = [authorize |-> 0, submit |-> 0, token |-> 0]
    /\ resp = Response("start", 0, "")
    /\ redeemed = << >>
    /\ retiredAccess = {}
    /\ retiredRefresh = {}
    /\ swept = {}
    /\ owner = PriorOwner(file)
    /\ writable \in BOOLEAN
    /\ caspioClient = NewClient

NextDisk ==
    \/ Authorize
    \/ Submit
    \/ SubmitSettle
    \/ Token
    \/ Janitor
    \/ Tick
    \/ Restart

SpecDisk == InitDisk /\ [][NextDisk]_vars

----------------------------------------------------------------------------
(* The command executor on its own: every tool of both servers, every
   confirm value, every backend behaviour *)

\* Tool names a caller can send: the catalog of the local server, which
\* holds the remote server's, and a name neither knows.
ToolNames == DOMAIN StdioCatalog \cup {"caspio_drop_everything"}

\* The credentials the local server reads from its environment or command
\* line (index.ts:66-90).
ConfiguredCredentials == Credentials("alice")

\* The tools whose inputSchema declares a `confirm` property
\* (index.ts:181-684, part_004:730-943).
DeclaresConfirm ==
    {"caspio_delete_table", "caspio_delete_field", "caspio_delete_records",
     "caspio_delete_file", "caspio_delete_directory_user"}

\* The tools whose inputSchema declares and requires a `where` property
\* (part_004:816-847, index.ts:323-368).
DeclaresWhere == {"caspio_update_records", "caspio_delete_records"}

\* Values a caller can put in args.where: none, the empty string, a filter.
WhereValues == {"undefined", "''", "ID=1"}

\* The arguments sent with a tool: every confirm and where value where the
\* schema has the property, none elsewhere.
ToolArguments ==
    { call \in [name : ToolNames,
                arguments : [confirm : ConfirmValues, where : WhereValues]] :
        /\ call.name \notin DeclaresConfirm => call.arguments.confirm = "undefined"
        /\ call.name \notin DeclaresWhere => call.arguments.where = "undefined" }

\* The tools/call requests of the remote server: every tool under a live
\* token, and one call without a header.
ToolCalls ==
    { [body |-> "envelope", header |-> h, method |-> "tools/call",
       name |-> call.name, arguments |-> call.arguments] :
        h \in {hd \in Headers : getSessionFromRequest(hd) # 0},
        call \in ToolArguments }
    \cup
    [body : {"envelope"}, header : {NoHeader}, method : {"tools/call"},
     name : {"caspio_delete_table"},
     arguments : [confirm : {"true"}, where : {"undefined"}]]

McpToolCall ==
    \E req \in ToolCalls, outcome \in BackendOutcomes :
        /\ resp' = McpAnswer(req, outcome)
        /\ UNCHANGED <<sessions, pendingAuths, authCodes, file, now, nextId,
                       inflight, ticks, made, redeemed, retiredAccess,
                       retiredRefresh, swept, owner, writable, caspioClient>>

\* The CallTool handler of the local server (index.ts:880-905): the result,
\* or the thrown error's message with isError.
StdioCallTool ==
    \E call \in ToolArguments, outcome \in BackendOutcomes :
        LET done == stdioExecuteTool(call.name, call.arguments,
                                     ConfiguredCredentials, outcome)
        IN /\ resp' = [Response("stdio", 0, done.error) EXCEPT
                         !.tool = call.name, !.confirm = call.arguments.confirm,
                         !.where = call.arguments.where,
                         !.client = ConfiguredCredentials,
                         !.calls = done.calls]
           /\ UNCHANGED <<sessions, pendingAuths, authCodes, file, now, nextId,
                          inflight, ticks, made, redeemed, retiredAccess,
                          retiredRefresh, swept, owner, writable, caspioClient>>

\* The other methods of the remote server, under every header: the five of
\* the allow-list and one that is not on it.
MethodCalls ==
    [body : {"envelope"}, header : Headers,
     method : unauthenticatedMethods \cup {"ping"},
     name : {"caspio_list_tables"}, arguments : [confirm : {"undefined"}, where : {"undefined"}]]

McpMethodCall ==
    \E req \in MethodCalls :
        /\ resp' = McpAnswer(req, "ok")
        /\ UNCHANGED <<sessions, pendingAuths, authCodes, file, now, nextId,
                       inflight, ticks, made, redeemed, retiredAccess,
                       retiredRefresh, swept, owner, writable, caspioClient>>

NextExec ==
    \/ McpToolCall
    \/ McpMethodCall
    \/ StdioCallTool

SpecExec == Init /\ [][NextExec]_vars

----------------------------------------------------------------------------
(* Properties *)

\* C1: an authorization code is exchanged successfully at most once; in
\* every state, an authorization_code request presenting a code that has
\* been exchanged is answered 400 invalid_grant, returns no tokens and
\* leaves the session store, the document and the id source as they were.
C1_SingleUseCode ==
    /\ \A i, j \in 1..Len(redeemed) : i # j => redeemed[i] # redeemed[j]
    /\ \A c \in Range(redeemed) :
         \A req \in TokenRequestsOver({c}, {}) :
            req.grant_type = "authorization_code" =>
                LET r == handleToken(req)
                IN /\ r.resp.status = 400
                   /\ r.resp.error = "invalid_grant"
                   /\ r.resp.body = NoBody
                   /\ r.sessions = sessions
                   /\ r.file = file
                   /\ r.nextId = nextId

\* A second exchange of a redeemed code has been answered invalid_grant.
C1_Witness ==
    /\ resp.ep = "token"
    /\ resp.presented \in Range(redeemed)
    /\ resp.status = 400
    /\ resp.error = "invalid_grant"

\* C2: a step that answers a submission "Failed to connect" leaves the
\* session store, the code registry, the document, the pending registry and
\* the id source as they were, and the same pending id, while it is still
\* registered, is taken up again by the submission handler; and every
\* session that appears in the store was created for a settled submission
\* whose credentials the backend accepts.
C2_FailedCheckCreatesNothing ==
    [][ /\ (resp'.ep = "submit" /\ resp'.error = "Failed to connect to Caspio") =>
             /\ resp'.status = 400
             /\ sessions' = sessions
             /\ authCodes' = authCodes
             /\ file' = file
             /\ pendingAuths' = pendingAuths
             /\ nextId' = nextId
             /\ resp'.presented \in DOMAIN pendingAuths' =>
                  (SubmitBegin(resp.presented, Credentials("alice")).resp.status = 0)'
        /\ \A k \in DOMAIN sessions' \ DOMAIN sessions :
             \E job \in inflight \ inflight' :
                /\ TRUE \in TestConnectionResults(job.creds)
                /\ CredsOf(sessions'[k]) = job.creds
      ]_vars

\* A check has failed while the pending record was registered, and nothing
\* was created.
C2_Witness ==
    /\ resp.ep = "submit"
    /\ resp.error = "Failed to connect to Caspio"
    /\ resp.presented \in DOMAIN pendingAuths
    /\ \A k \in DOMAIN sessions : CredsOf(sessions[k]) # Credentials("alice")
    /\ authCodes = EmptyMap

\* C3: in every state, a protocol request whose method is outside the
\* allow-list and whose Authorization header is absent, is not a Bearer
\* header, or carries a token that no stored session has as its access
\* token, is answered 401 with the WWW-Authenticate hint and reaches no
\* backend, however the backend would behave.
C3_UnauthenticatedRejected ==
    \A req \in McpRequestsOver(HeadersOver(KnownIds \cup {Forged}),
                               {"caspio_delete_table"}, {"true"}) :
        ( /\ req.body = "envelope"
          /\ req.method \notin unauthenticatedMethods
          /\ \/ req.header.scheme # "Bearer"
             \/ \A k \in DOMAIN sessions :
                    sessions[k].accessToken # req.header.token )
        => \A outcome \in BackendOutcomes :
              LET r == handleMcpRequest(req, outcome)
              IN /\ r.status = 401
                 /\ r.hint
                 /\ r.calls = << >>
                 /\ r.client = NoCreds

\* While a session with an issued token is stored, a tools/call carrying a
\* token of no stored session has been answered 401 with the hint.
C3_Witness ==
    /\ resp.ep = "mcp"
    /\ resp.status = 401
    /\ resp.hint
    /\ resp.tool = "caspio_list_tables"
    /\ resp.presented # 0
    /\ \E k \in DOMAIN sessions : sessions[k].accessToken # 0
    /\ \A k \in DOMAIN sessions : sessions[k].accessToken # resp.presented

C5_NoCredentialsInDocument ==
    \A i \in 1..Len(file.members) :
        \A form \in SubmitForms :
            LET record == file.members[i][2]
            IN /\ (~Falsy(form.caspioBaseUrl) =>
                     record.caspioBaseUrl # StripTrailingSlash(form.caspioBaseUrl))
               /\ (~Falsy(form.caspioClientId) =>
                     record.caspioClientId # form.caspioClientId)
               /\ (~Falsy(form.caspioClientSecret) =>
                     record.caspioClientSecret # form.caspioClientSecret)

\* The destructive operations of a catalog: the tools that call a delete
\* operation of the backend.
DestructiveTools(catalog) ==
    {name \in DOMAIN catalog :
        \E i \in 1..Len(catalog[name]) : catalog[name][i] \in DeleteOps}

CatalogOf(ep) == IF ep = "stdio" THEN StdioCatalog ELSE HttpCatalog

\* C6: on both servers, every destructive operation of the catalog called
\* with confirm absent or false throws "Deletion not confirmed" and calls
\* no backend, whatever the backend would answer; and every tools/call
\* answered so far agrees.
C6_UnconfirmedDeleteRefused ==
    /\ \A confirm \in {"undefined", "false"}, outcome \in BackendOutcomes,
          u \in Users :
         /\ \A name \in DestructiveTools(HttpCatalog) :
              executeTool(name, [confirm |-> confirm], Credentials(u), outcome)
                 = [calls |-> << >>, error |-> NotConfirmed]
         /\ \A name \in DestructiveTools(StdioCatalog) :
              stdioExecuteTool(name, [confirm |-> confirm], Credentials(u), outcome)
                 = [calls |-> << >>, error |-> NotConfirmed]
    /\ ( /\ resp.ep \in {"mcp", "stdio"}
         /\ resp.tool \in DestructiveTools(CatalogOf(resp.ep))
         /\ resp.confirm \in {"undefined", "false"} )
       => /\ resp.calls = << >>
          /\ resp.status # 401 => resp.error = NotConfirmed

\* The remote server has refused a delete_records call with confirm false.
C6_Witness ==
    /\ resp.ep = "mcp"
    /\ resp.status = 200
    /\ resp.tool = "caspio_delete_records"
    /\ resp.confirm = "false"
    /\ resp.error = NotConfirmed
    /\ resp.calls = << >>

\* C7: a destructive operation of the remote server calls the backend's
\* delete only when confirm is the boolean true; a tools/call with any other
\* confirm value that got past the dispatch gate is answered "Deletion not
\* confirmed" and has called no backend.
C7_OnlyTrueDeletes ==
    ( /\ resp.ep = "mcp"
      /\ resp.status # 401
      /\ resp.tool \in DestructiveTools(HttpCatalog)
      /\ resp.confirm # "true" )
    => /\ resp.error = NotConfirmed
       /\ resp.calls = << >>

\* C8: right after a janitor sweep the store holds no session whose
\* expiresAt is earlier than the time of the sweep, and in every state the
\* issued access token of a session that a sweep removed resolves no
\* session at the dispatch gate: a call carrying it is answered 401.
C8_ExpiredSessionSwept ==
    /\ resp.ep = "janitor" =>
         \A k \in DOMAIN sessions : ~(sessions[k].expiresAt < now)
    /\ \A t \in swept :
         LET header == [scheme |-> "Bearer", token |-> t]
         IN /\ getSessionFromRequest(header) = 0
            /\ \A req \in McpRequestsOver({header}, {"caspio_list_tables"},
                                          {"undefined"}) :
                 (req.body = "envelope" /\ req.method = "tools/call") =>
                    handleMcpRequest(req, "ok").status = 401

\* A sweep has removed a session with an issued token, and that token has
\* since been presented at the dispatch gate and refused.
C8_Witness ==
    /\ swept # {}
    /\ resp.ep = "mcp"
    /\ resp.presented \in swept
    /\ resp.tool = "caspio_list_tables"
    /\ resp.status = 401

\* The sessions of store m that are not expired at time t, by the test the
\* loader applies.
NotExpiredAt(m, t) == [k \in {j \in DOMAIN m : m[j].expiresAt > t} |-> m[k]]

C10_PerUserIsolation ==
    \A t \in KnownIds :
        LET header == [scheme |-> "Bearer", token |-> t]
            sid == getSessionFromRequest(header)
        IN sid # 0 =>
            /\ sessions[sid].accessToken = t
            /\ t # 0 => (t \in DOMAIN owner /\ CredsOf(sessions[sid]) = owner[t])
            /\ \A req \in McpRequestsOver({header},
                              {"caspio_list_tables", "caspio_get_account_summary"},
                              {"undefined"}) :
                 (req.body = "envelope" /\ req.method = "tools/call") =>
                    \A outcome \in BackendOutcomes :
                        LET r == handleMcpRequest(req, outcome)
                        IN /\ r.status = 200
                           /\ r.client = CredsOf(sessions[sid])
                           /\ r.calls # << >>
                           /\ \A i \in 1..Len(r.calls) :
                                r.calls[i].creds = CredsOf(sessions[sid])

\* With bob's and alice's sessions both stored under issued tokens, a call
\* under alice's token has reached the backend with alice's credentials.
C10_Witness ==
    /\ resp.ep = "mcp"
    /\ resp.status = 200
    /\ resp.calls # << >>
    /\ resp.client = Credentials("alice")
    /\ resp.presented \in DOMAIN owner
    /\ owner[resp.presented] = Credentials("alice")
    /\ \E k \in DOMAIN sessions :
          /\ CredsOf(sessions[k]) = Credentials("bob")
          /\ sessions[k].accessToken # 0

\* C11: in every state in which the authorization endpoint answers a
\* request, an authorize request whose response_type is not "code" is
\* answered 400 unsupported_response_type, one with
\* response_type "code" and no redirect_uri is answered 400 invalid_request,
\* and neither registers a pending record or draws an id; and every step
\* that answers an authorize request with 400 leaves the pending registry
\* as it was.
C11_InvalidAuthorizeCreatesNothing ==
    [][ /\ resp'.ep = "authorize" =>
           \A req \in AuthorizeRequests :
             LET r == handleAuthorize(req)
             IN /\ req.response_type # "code" =>
                     /\ r.resp.status = 400
                     /\ r.resp.error = "unsupported_response_type"
                     /\ r.pendingAuths = pendingAuths
                     /\ r.nextId = nextId
                /\ (req.response_type = "code" /\ req.redirect_uri = EmptyStr) =>
                     /\ r.resp.status = 400
                     /\ r.resp.error = "invalid_request"
                     /\ r.pendingAuths = pendingAuths
                     /\ r.nextId = nextId
        /\ (resp'.ep = "authorize" /\ resp'.status = 400) =>
             /\ resp'.error \in {"unsupported_response_type", "invalid_request"}
             /\ resp'.body = NoBody
             /\ pendingAuths' = pendingAuths
             /\ nextId' = nextId
      ]_vars

\* With a pending record registered, an authorize request without a
\* redirect_uri has been refused and the registry still holds that record.
C11_Witness ==
    /\ resp.ep = "authorize"
    /\ resp.status = 400
    /\ resp.error = "invalid_request"
    /\ Cardinality(DOMAIN pendingAuths) = 1

\* C12: every step in which a submission gets past the credential check (it
\* is answered with the redirect, or it stores a session or a code) adds
\* exactly one session and exactly one code bound to that session's id,
\* removes the submitted pending record, and answers 302 to the redirect URI
\* registered at authorize time, with that code and the registered state.
C12_SubmissionCreatesOneOfEach ==
    [][ ( /\ resp'.ep = "submit"
          /\ \/ resp'.status = 302
             \/ DOMAIN sessions' # DOMAIN sessions
             \/ DOMAIN authCodes' # DOMAIN authCodes )
        => /\ Cardinality(DOMAIN sessions' \ DOMAIN sessions) = 1
           /\ Cardinality(DOMAIN authCodes' \ DOMAIN authCodes) = 1
           /\ DOMAIN sessions \subseteq DOMAIN sessions'
           /\ DOMAIN authCodes \subseteq DOMAIN authCodes'
           /\ \A c \in DOMAIN authCodes' \ DOMAIN authCodes :
                /\ authCodes'[c].sessionId \in DOMAIN sessions' \ DOMAIN sessions
                /\ resp'.body.code = c
           /\ resp'.presented \in DOMAIN pendingAuths
           /\ resp'.presented \notin DOMAIN pendingAuths'
           /\ resp'.status = 302
           /\ resp'.body.location = pendingAuths[resp'.presented].redirectUri
           /\ resp'.body.state = pendingAuths[resp'.presented].state
      ]_vars

\* C13: in every state, any two distinct sessions of the store hold
\* different access token values, sessions whose code has not been
\* exchanged included.
C13_AccessTokensDistinct ==
    \A j, k \in DOMAIN sessions :
        j # k => sessions[j].accessToken # sessions[k].accessToken

\* The step answers a successful refresh_token grant for session k: the
\* token presented is the refresh token k held.
RefreshOf(k) ==
    /\ resp'.ep = "token"
    /\ resp'.status = 200
    /\ resp'.presented # 0
    /\ sessions[k].refreshToken = resp'.presented

\* C14 as stated: after a successful refresh the session's expiresAt is
\* strictly greater than before and equals the refresh time plus 24 hours.
C14_RefreshStrictlyExtends ==
    [][ \A k \in DOMAIN sessions :
            RefreshOf(k) =>
                /\ sessions'[k].expiresAt > sessions[k].expiresAt
                /\ sessions'[k].expiresAt = now + SESSION_TTL
      ]_vars

\* C14 as amended: after a successful refresh the session's expiresAt
\* equals the refresh time plus 24 hours and is not smaller than before; it
\* is greater than before when the clock has advanced since the session's
\* tokens were last issued, which in every state is no later than now.
C14_RefreshNeverShortens ==
    [][ /\ \A k \in DOMAIN sessions : sessions[k].expiresAt <= now + SESSION_TTL
        /\ \A k \in DOMAIN sessions :
              RefreshOf(k) =>
                /\ k \in DOMAIN sessions'
                /\ sessions'[k].expiresAt = now + SESSION_TTL
                /\ sessions'[k].expiresAt >= sessions[k].expiresAt
                /\ (sessions[k].expiresAt < now + SESSION_TTL =>
                      sessions'[k].expiresAt > sessions[k].expiresAt)
      ]_vars

\* A refresh made after the clock advanced has given the session a later
\* expiresAt, a day after the refresh.
C14_Witness ==
    /\ resp.ep = "token"
    /\ resp.status = 200
    /\ resp.presented \in retiredRefresh
    /\ now > 0
    /\ \E k \in DOMAIN sessions :
          /\ sessions[k].accessToken = resp.body.access_token
          /\ sessions[k].createdAt < now
          /\ sessions[k].expiresAt = now + SESSION_TTL

Verifiers == {EmptyStr, <<"abc">>, <<"other">>}

\* C16: in every state and for every code presented, the token endpoint's
\* answer and the state it leaves are the same whatever code_verifier the
\* request carries, and a code that is registered, not expired and bound to
\* a stored session is exchanged successfully with each of them.
C16_VerifierIgnored ==
    \A req \in TokenRequestsOver(CodeInputs, {}) :
        req.grant_type = "authorization_code" =>
            \A v \in Verifiers :
                LET r == handleToken([req EXCEPT !.code_verifier = v])
                IN /\ r = handleToken([req EXCEPT !.code_verifier = EmptyStr])
                   /\ ( /\ req.code \in DOMAIN authCodes
                        /\ ~(authCodes[req.code].expiresAt < now)
                        /\ authCodes[req.code].sessionId \in DOMAIN sessions )
                      => r.resp.status = 200

\* A code has been exchanged by a request carrying a code_verifier that
\* matches no registered challenge.
C16_Witness ==
    /\ resp.ep = "token"
    /\ resp.status = 200
    /\ resp.presented \in Range(redeemed)
    /\ resp.verifier = <<"other">>
    /\ resp.body.access_token # 0

\* C17: in every state, an authorization_code request whose code is
\* missing, is not in the code registry, or is registered with an expiresAt
\* earlier than now is answered 400 invalid_grant, returns no tokens and
\* leaves the session store, the document and the id source as they were;
\* a registered expired code is removed from the registry by that request,
\* and nothing else in the registry changes.
C17_BadCodeRejected ==
    \A req \in TokenRequestsOver(CodeInputs, {}) :
        ( /\ req.grant_type = "authorization_code"
          /\ \/ req.code = 0
             \/ req.code \notin DOMAIN authCodes
             \/ authCodes[req.code].expiresAt < now )
        => LET r == handleToken(req)
           IN /\ r.resp.status = 400
              /\ r.resp.error = "invalid_grant"
              /\ r.resp.body = NoBody
              /\ r.sessions = sessions
              /\ r.file = file
              /\ r.nextId = nextId
              /\ r.authCodes = MapDelete(authCodes, {req.code})

\* A code that expired unexchanged has been presented and refused; it is
\* no longer registered and its session still has no tokens.
C17_Witness ==
    /\ resp.ep = "token"
    /\ resp.status = 400
    /\ resp.error = "invalid_grant"
    /\ resp.presented # 0
    /\ resp.presented \notin DOMAIN authCodes
    /\ resp.presented \notin Range(redeemed)
    /\ now > CODE_TTL
    /\ resp.presented + 1 \in DOMAIN sessions
    /\ sessions[resp.presented + 1].accessToken = 0

\* C18: in every state in which the token endpoint answers a request, a
\* refresh_token request whose token no stored session holds is answered
\* 400 invalid_grant and a request with another grant_type is answered 400
\* unsupported_grant_type, both leaving the session store, the code
\* registry, the document and the id source as they were; and every step
\* that gives one of these answers changes neither these nor the pending
\* registry.
C18_TokenRejectionsChangeNothing ==
    [][ /\ resp'.ep = "token" =>
           \A req \in TokenRequestsOver({}, KnownIds \cup {Forged}) :
             LET r == handleToken(req)
                 same == /\ r.resp.status = 400
                         /\ r.resp.body = NoBody
                         /\ r.sessions = sessions
                         /\ r.authCodes = authCodes
                         /\ r.file = file
                         /\ r.nextId = nextId
             IN /\ ( /\ req.grant_type = "refresh_token"
                     /\ req.refresh_token # 0
                     /\ \A k \in DOMAIN sessions :
                           sessions[k].refreshToken # req.refresh_token )
                   => (same /\ r.resp.error = "invalid_grant")
                /\ req.grant_type \notin {"authorization_code", "refresh_token"}
                   => (same /\ r.resp.error = "unsupported_grant_type")
        /\ ( /\ resp'.ep = "token"
             /\ \/ resp'.error = "unsupported_grant_type"
                \/ /\ resp'.error = "invalid_grant"
                   /\ resp'.presented \notin DOMAIN authCodes )
           => /\ sessions' = sessions
              /\ authCodes' = authCodes
              /\ pendingAuths' = pendingAuths
              /\ file' = file
              /\ nextId' = nextId
      ]_vars

\* With sessions stored, a refresh token that no session holds any more has
\* been presented and refused.
C18_Witness ==
    /\ resp.ep = "token"
    /\ resp.status = 400
    /\ resp.error = "invalid_grant"
    /\ resp.presented \in retiredRefresh
    /\ sessions # EmptyMap
    /\ \A k \in DOMAIN sessions : sessions[k].refreshToken # resp.presented

\* C19: in every state in which the submission endpoint answers a request,
\* a submission whose pending id is not in the registry is answered 400
\* invalid_request, and one with a registered pending id and a base URL,
\* client id or client secret that is missing or empty is answered 400 with
\* the form re-rendered for that id; neither starts a connection test or
\* makes a backend call; and every step that gives one of these answers
\* leaves the sessions, the pending and code registries, the document, the
\* id source and the suspended submissions as they were.
C19_SubmissionRejectedEarly ==
    [][ /\ resp'.ep = "submit" =>
           \A authId \in PendingInputs, form \in SubmitForms :
             LET r == SubmitBegin(authId, form)
                 early == /\ r.resp.status = 400
                          /\ r.resp.calls = << >>
                          /\ r.inflight = inflight
             IN /\ authId \notin DOMAIN pendingAuths =>
                     /\ early
                     /\ r.resp.error = "invalid_request"
                     /\ r.resp.body = NoBody
                /\ ( /\ authId \in DOMAIN pendingAuths
                     /\ \/ form.caspioBaseUrl = EmptyStr
                        \/ form.caspioClientId = EmptyStr
                        \/ form.caspioClientSecret = EmptyStr ) =>
                     /\ early
                     /\ r.resp.error = "Please fill in all fields"
                     /\ r.resp.body.auth_id = authId
        /\ ( /\ resp'.ep = "submit"
             /\ resp'.error \in {"invalid_request", "Please fill in all fields"} ) =>
             /\ resp'.status = 400
             /\ resp'.calls = << >>
             /\ UNCHANGED <<sessions, pendingAuths, authCodes, file, nextId,
                            inflight>>
      ]_vars

\* A registered pending id was submitted with a field left empty, the form
\* came back with 400, and the pending record is still registered, with no
\* session created in this run and no connection test under way.
C19_Witness ==
    /\ resp.ep = "submit" /\ resp.status = 400
    /\ resp.error = "Please fill in all fields"
    /\ resp.presented \in DOMAIN pendingAuths
    /\ resp.calls = << >>
    /\ inflight = {}
    /\ \A k \in DOMAIN sessions : k < FirstId

\* The answer to a request for `method` under `header`, and what the gate
\* does with a method that is not on the allow-list.
MethodRequest(header, method) ==
    [body |-> "envelope", header |-> header, method |-> method,
     name |-> "caspio_list_tables", arguments |-> [confirm |-> "undefined", where |-> "undefined"]]

GateRequiresSession(header, method, outcome) ==
    LET r == handleMcpRequest(MethodRequest(header, method), outcome)
        k == getSessionFromRequest(header)
    IN /\ k = 0 => /\ r.status = 401
                   /\ r.client = NoCreds
                   /\ r.calls = << >>
       /\ r.status = 200 => /\ k # 0
                            /\ r.client = CredsOf(sessions[k])

AnsweredWithoutSession(header, method, outcome, error) ==
    LET r == handleMcpRequest(MethodRequest(header, method), outcome)
    IN /\ r.status = 200
       /\ r.error = error
       /\ r.client = NoCreds
       /\ r.calls = << >>
       /\ r = handleMcpRequest(MethodRequest(NoHeader, method), outcome)

CollaboratorMessages == {BackendError(outcome) : outcome \in BackendOutcomes} \ {""}

\* C21: whenever a tools/call has been answered for a caller whose client
\* was built (the remote server under a resolved session, the local server
\* under its configured credentials), the answer is no 5xx and its error,
\* if any, does not carry the collaborator's own error text.
C21_BackendFailureGeneric ==
    (resp.ep \in {"mcp", "stdio"} /\ resp.tool # "" /\ resp.client # NoCreds)
        => /\ resp.status < 500
           /\ resp.error \notin CollaboratorMessages

\* C22: whenever the remote server has answered a caspio_update_records or
\* caspio_delete_records call whose where argument was absent or the empty
\* string, the call was refused with an error and the backend's
\* updateRecords or deleteRecords was not called.
C22_WhereRequired ==
    ( /\ resp.ep = "mcp"
      /\ resp.tool \in DeclaresWhere
      /\ resp.where \in {"undefined", "''"}
      /\ resp.client # NoCreds )
        => /\ resp.error # ""
           /\ \A i \in 1..Len(resp.calls) :
                 resp.calls[i].op \notin {"updateRecords", "deleteRecords"}

\* C23: right after a janitor sweep, neither the session store nor the
\* durable document holds a session (and with it its credentials) whose
\* expiresAt is earlier than the time of the sweep, whether or not the
\* process was restarted before the sweep.
C23_ExpiredCredentialsGone ==
    resp.ep = "janitor" =>
        /\ \A k \in DOMAIN sessions : ~SessionExpired(sessions[k], now)
        /\ \A i \in 1..Len(file.members) :
               ~SessionExpired(file.members[i][2], now)

\* A tools/call for caspio_list_tables under `header`.
ListTablesCall(header) ==
    [body |-> "envelope", header |-> header, method |-> "tools/call",
     name |-> "caspio_list_tables",
     arguments |-> [confirm |-> "undefined", where |-> "undefined"]]

\* C24: right after the token endpoint has exchanged a code that a
\* submission of this run issued, a tools/call carrying the returned access
\* token is answered 200 by a client built from the credentials that
\* submission passed its connection check with, credentials the backend
\* accepts, and every backend call it makes uses them, whatever the backend
\* then answers; the same call without a header is answered 401 with the
\* discoverability hint and reaches no backend; and whenever such a call
\* under a token issued in this run has been answered 200, it was served
\* with the credentials submitted for that token.
C24_FlowYieldsWorkingBearer ==
    /\ ( /\ resp.ep = "token" /\ resp.status = 200
         /\ resp.presented \in Range(redeemed) ) =>
          /\ resp.presented \in DOMAIN owner
          /\ BackendAccepts(owner[resp.presented])
          /\ \A outcome \in BackendOutcomes :
               LET creds == owner[resp.presented]
                   bearer == [scheme |-> "Bearer", token |-> resp.body.access_token]
                   with == handleMcpRequest(ListTablesCall(bearer), outcome)
                   without == handleMcpRequest(ListTablesCall(NoHeader), outcome)
               IN /\ with.status = 200
                  /\ with.client = creds
                  /\ with.calls # << >>
                  /\ \A i \in 1..Len(with.calls) : with.calls[i].creds = creds
                  /\ without.status = 401
                  /\ without.hint
                  /\ without.calls = << >>
    /\ ( /\ resp.ep = "mcp" /\ resp.tool # "" /\ resp.status = 200
         /\ resp.presented >= FirstId ) =>
          /\ resp.presented \in DOMAIN owner
          /\ resp.client = owner[resp.presented]
          /\ BackendAccepts(resp.client)

\* The flow has been run with alice's credentials, the code was exchanged,
\* and a call under the returned access token has reached the backend with
\* alice's credentials.
C24_Witness ==
    /\ resp.ep = "mcp" /\ resp.status = 200
    /\ resp.tool = "caspio_list_tables"
    /\ redeemed # << >>
    /\ resp.presented >= FirstId
    /\ \E k \in DOMAIN sessions : sessions[k].accessToken = resp.presented
    /\ resp.client = Credentials("alice")
    /\ Len(resp.calls) = 2

\* Bodies that are no request envelope: text that is no JSON, and JSON that
\* is no object.
NoEnvelope == {"invalid", "null", "number"}

\* C25: in every state, a POST to the protocol endpoint whose body is no
\* request envelope is answered, under every header, with a 4xx and the
\* fixed parse error, the same answer as without a header, with no client
\* built and no backend call.
C25_MalformedBodyIs4xx ==
    \A req \in McpRequestsOver(Headers, {"caspio_list_tables"}, {"undefined"}) :
        req.body \in NoEnvelope =>
            LET r == handleMcpRequest(req, "ok")
            IN /\ r.status >= 400 /\ r.status < 500
               /\ r.error = "Parse error: Invalid JSON"
               /\ r = handleMcpRequest([req EXCEPT !.header = NoHeader], "ok")
               /\ r.client = NoCreds
               /\ r.calls = << >>

\* C26: in every state, a submission that is suspended at its connection
\* check and whose pending record is no longer in the registry completes
\* without an internal error, with 400 invalid_request when the check
\* succeeds, and changes no registry, the store or the document.
C26_NoStaleLookupAcrossAwait ==
    \A job \in inflight :
        job.authId \notin DOMAIN pendingAuths =>
            \A connected \in TestConnectionResults(job.creds) :
                LET r == SubmitResume(job, connected)
                IN /\ r.resp.status = 400
                   /\ connected => r.resp.error = "invalid_request"
                   /\ r.sessions = sessions
                   /\ r.pendingAuths = pendingAuths
                   /\ r.authCodes = authCodes
                   /\ r.file = file

\* C27: every submission that creates a session and a code does so for a
\* pending id that no earlier submission created one for.  (A submission
\* writes its credentials into the pending record, lines 391-393, right
\* before it creates the session and the code, so a record that carries
\* credentials is one that a submission has already created them for.)
C27_OneCreationPerPendingId ==
    [][ (resp'.ep = "submit" /\ nextId' # nextId) =>
            /\ resp'.presented \in DOMAIN pendingAuths
            /\ pendingAuths[resp'.presented].creds = NoCreds ]_vars

\* C28: a refresh_token request succeeds only for a token that no earlier
\* request succeeded with; its success leaves exactly one stored session
\* holding the returned pair and none holding the presented refresh token
\* or the access token it replaced; and in every state in which the token
\* endpoint answers, every request presenting a token that a refresh has
\* already succeeded with is answered 400 invalid_grant and changes
\* nothing.
C28_OneRefreshPerToken ==
    [][ /\ resp'.ep = "token" =>
           \A t \in retiredRefresh :
             LET r == handleToken([grant_type |-> "refresh_token", code |-> 0,
                                   code_verifier |-> EmptyStr,
                                   refresh_token |-> t])
             IN /\ r.resp.status = 400
                /\ r.resp.error = "invalid_grant"
                /\ r.sessions = sessions
                /\ r.file = file
        /\ ( /\ resp'.ep = "token" /\ resp'.status = 200
             /\ resp'.presented \notin Range(redeemed') ) =>
             /\ resp'.presented \notin retiredRefresh
             /\ \E k \in DOMAIN sessions :
                   /\ sessions[k].refreshToken = resp'.presented
                   /\ sessions[k].accessToken \in retiredAccess'
                   /\ \A j \in DOMAIN sessions' :
                         /\ sessions'[j].refreshToken # resp'.presented
                         /\ sessions'[j].accessToken # sessions[k].accessToken
                         /\ ( sessions'[j].accessToken = resp'.body.access_token
                              \/ sessions'[j].refreshToken = resp'.body.refresh_token )
                            => j = k
                   /\ sessions'[k].accessToken = resp'.body.access_token
                   /\ sessions'[k].refreshToken = resp'.body.refresh_token
      ]_vars

\* A refresh token was presented a second time after a refresh had
\* succeeded with it: the request was refused, and the session still holds
\* the one pair the first request was given.
C28_Witness ==
    /\ resp.ep = "token" /\ resp.status = 400 /\ resp.error = "invalid_grant"
    /\ resp.presented \in retiredRefresh
    /\ \E k \in DOMAIN sessions :
          /\ sessions[k].refreshToken \notin retiredRefresh \cup {0}
          /\ sessions[k].accessToken \notin retiredAccess \cup {0}
          /\ sessions[k].refreshToken = sessions[k].accessToken + 1
          /\ resp.presented < sessions[k].accessToken

\* The document holds exactly the sessions of the store m, with equal
\* fields.
DocumentHolds(doc, m) ==
    /\ doc.exists
    /\ Len(doc.members) = Cardinality(DOMAIN m)
    /\ \A i \in 1..Len(doc.members) :
          /\ doc.members[i][1] \in DOMAIN m
          /\ doc.members[i][2] = m[doc.members[i][1]]

\* A step of a submission, of the token endpoint or of the janitor that
\* changes the session store.
StoreMutation ==
    /\ resp'.ep \in {"submit", "token", "janitor"}
    /\ sessions' # sessions

Removed(from, after, gone) ==
    /\ DOMAIN after = DOMAIN from \ gone
    /\ \A k \in DOMAIN after : after[k] = from[k]

----------------------------------------------------------------------------
(* The gateway with its janitor timer running and its clock advancing *)

\* Wall-clock time passes while some pending record or authorization code
\* has not yet reached the age at which the janitor removes it (lines 184
\* and 189); once every entry is past that age further passage of time
\* changes nothing the janitor looks at.
ClockAdvances ==
    \E d \in {PENDING_TTL} :
        /\ \/ \E k \in DOMAIN pendingAuths :
                 pendingAuths[k].createdAt + PENDING_TTL >= now
           \/ \E c \in DOMAIN authCodes : authCodes[c].expiresAt >= now
        /\ now' = now + d
        /\ resp' = Response("tick", 0, "")
        /\ UNCHANGED <<sessions, pendingAuths, authCodes, file, nextId,
                       inflight, ticks, made, redeemed, retiredAccess,
                       retiredRefresh, swept, owner, writable, caspioClient>>

\* A client presents an authorization code that is in the registry to the
\* token endpoint (lines 433-489).
Redeem ==
    \E req \in TokenRequestsOver(DOMAIN authCodes, {}) :
        LET r == handleToken(req)
            ok == r.resp.status = 200
            n == IF ok THEN 1 ELSE 0
        IN /\ req.grant_type = "authorization_code"
           /\ req.code_verifier = EmptyStr
           /\ made.token + n <= MaxToken
           /\ made' = [made EXCEPT !.token = @ + n]
           /\ sessions' = r.sessions
           /\ file' = r.file
           /\ authCodes' = r.authCodes
           /\ nextId' = r.nextId
           /\ resp' = [r.resp EXCEPT !.presented = req.code,
                                     !.verifier = req.code_verifier]
           /\ redeemed' = IF ok THEN Append(redeemed, req.code) ELSE redeemed
           /\ owner' = IF ok /\ req.code \in DOMAIN owner
                       THEN MapSet(MapSet(owner, r.resp.body.access_token,
                                          owner[req.code]),
                                   r.resp.body.refresh_token, owner[req.code])
                       ELSE owner
           /\ UNCHANGED <<pendingAuths, now, inflight, ticks, swept, writable,
                          retiredAccess, retiredRefresh, caspioClient>>

NextLive ==
    \/ Authorize
    \/ Submit
    \/ SubmitSettle
    \/ Redeem
    \/ Janitor
    \/ ClockAdvances

\* setInterval (line 170) fires the janitor again and again for as long as
\* the process runs, and the clock does not stop.
SpecLive ==
    /\ Init
    /\ [][NextLive]_vars
    /\ WF_vars(Janitor)
    /\ WF_vars(ClockAdvances)

\* Every id generateId() can return within the bounds.
IssuableIds == FirstId..(FirstId + MaxAuthorize + 2 * MaxSubmit + 2 * MaxToken)

\* C31: every pending-authorization record is eventually removed (by a
\* successful submission or by a janitor sweep after createdAt + 10 min),
\* and every authorization code is eventually removed (by redemption or by
\* a sweep after its expiresAt); no sweep leaves behind a pending record or
\* a code that is past its age.
C31_PendingAndCodesEventuallyRemoved ==
    /\ \A id \in IssuableIds :
          /\ (id \in DOMAIN pendingAuths) ~> (id \notin DOMAIN pendingAuths)
          /\ (id \in DOMAIN authCodes) ~> (id \notin DOMAIN authCodes)
    /\ [][ resp'.ep = "janitor" =>
             /\ \A k \in DOMAIN pendingAuths' :
                   pendingAuths'[k].createdAt + 600000 >= now
             /\ \A c \in DOMAIN authCodes' : authCodes'[c].expiresAt >= now ]_vars

\* A pending record was created, no submission created a session from it,
\* and a sweep has left the registry empty: the janitor removed the record.
C31_Witness ==
    /\ resp.ep = "janitor"
    /\ made.authorize = 1
    /\ made.submit = 0
    /\ pendingAuths = EmptyMap
    /\ now > PENDING_TTL

----------------------------------------------------------------------------
(* The gateway on the janitor's schedule: a sweep every 60 seconds *)

\* Twenty seconds, ten minutes, a day.
ElapseDeltas == {20000, PENDING_TTL, SESSION_TTL}

\* The time of the last firing of the janitor's timer up to time t; the
\* timer is set at process start, time 0 (line 170).
LastSweep(t) == (t \div SWEEP_INTERVAL) * SWEEP_INTERVAL

\* Time passes without a request.  Every firing of the timer in that time
\* runs the janitor; nothing else runs between the firings, so what the
\* sweeps leave together is what the last of them leaves on its own.
Elapse ==
    \E d \in ElapseDeltas :
        LET t == LastSweep(now + d)
            r == JanitorSweep(t)
        IN /\ ticks < MaxElapse
           /\ ticks' = ticks + 1
           /\ now' = now + d
           /\ IF t > now
              THEN /\ sessions' = r.sessions
                   /\ file' = r.file
                   /\ pendingAuths' = r.pendingAuths
                   /\ authCodes' = r.authCodes
                   /\ resp' = Response("janitor", 0, "")
                   /\ swept' = swept \cup
                         ({sessions[k].accessToken : k \in ExpiredSessions(t)}
                          \ {0})
              ELSE /\ resp' = Response("tick", 0, "")
                   /\ UNCHANGED <<sessions, file, pendingAuths, authCodes,
                                  swept>>
           /\ UNCHANGED <<nextId, inflight, made, redeemed, retiredAccess,
                          retiredRefresh, owner, writable, caspioClient>>

\* A tools/call arrives with a bearer token (lines 548-644).
Resolve ==
    \E req \in McpRequestsOver(HeadersOver(BearerInputs),
                               {"caspio_list_tables"}, {"undefined"}) :
        /\ req.body = "envelope"
        /\ req.method = "tools/call"
        /\ resp' = McpAnswer(req, "ok")
        /\ UNCHANGED <<sessions, pendingAuths, authCodes, file, now, nextId,
                       inflight, ticks, made, redeemed, retiredAccess,
                       retiredRefresh, swept, owner, writable, caspioClient>>

NextTimed ==
    \/ Authorize
    \/ Submit
    \/ SubmitSettle
    \/ Redeem
    \/ Resolve
    \/ Elapse

SpecTimed == Init /\ [][NextTimed]_vars

\* C32: a submission that arrives when the pending record it names was
\* created more than 10 minutes earlier is answered invalid_request and
\* starts nothing, whether or not the janitor has removed the record.
C32_OverAgePendingRefused ==
    [][ ( /\ resp'.ep = "submit"
          /\ inflight \subseteq inflight'
          /\ resp'.presented \in DOMAIN pendingAuths
          /\ pendingAuths[resp'.presented].createdAt + 600000 < now )
        => /\ resp'.status = 400
           /\ resp'.error = "invalid_request"
           /\ inflight' = inflight ]_vars

TokensOrCode(k, s) ==
    \/ s.accessToken # 0
    \/ \E c \in DOMAIN authCodes : authCodes[c].sessionId = k

\* C37: every session in the store, and every session in the durable
\* document, holds issued tokens or has an authorization code of the
\* registry bound to it: no session stays stored once its code is gone
\* unredeemed.
C37_NoOrphanSessions ==
    /\ \A k \in DOMAIN sessions : TokensOrCode(k, sessions[k])
    /\ \A i \in 1..Len(file.members) :
          TokensOrCode(file.members[i][1], file.members[i][2])

\* The fields of a session that a token grant leaves alone.
FixedFields(s) == <<CredsOf(s), s.createdAt>>

\* C38: a code exchange or refresh changes nothing in the store but the
\* access token, refresh token and expiresAt of the one session it
\* resolves (the session the code is bound to, or the holder of the refresh
\* token); every other session is unchanged, a failed grant changes no
\* session, and in no step at all do a stored session's three credential
\* fields or its createdAt change.
C38_GrantsChangeOnlyTokens ==
    [][ /\ \A k \in DOMAIN sessions \cap DOMAIN sessions' :
              FixedFields(sessions'[k]) = FixedFields(sessions[k])
        /\ resp'.ep = "token" =>
              LET changed == {k \in DOMAIN sessions : sessions'[k] # sessions[k]}
                  resolved ==
                      {k \in DOMAIN sessions :
                          \/ /\ resp'.presented \in DOMAIN authCodes
                             /\ authCodes[resp'.presented].sessionId = k
                          \/ /\ resp'.presented # 0
                             /\ sessions[k].refreshToken = resp'.presented}
              IN /\ DOMAIN sessions' = DOMAIN sessions
                 /\ resp'.status # 200 => changed = {}
                 /\ resp'.status = 200 =>
                       /\ Cardinality(changed) = 1
                       /\ changed \subseteq resolved ]_vars

\* A grant has just succeeded in a store that holds another session too,
\* and the session it resolved is older than its tokens.
C38_Witness ==
    /\ resp.ep = "token"
    /\ resp.status = 200
    /\ Cardinality(DOMAIN sessions) >= 2
    /\ \E k \in DOMAIN sessions :
          /\ sessions[k].accessToken = resp.body.access_token
          /\ sessions[k].createdAt + SESSION_TTL < sessions[k].expiresAt

\* The token request of the step presents a code or a refresh token that
\* the endpoint accepts: a code of the registry that is not expired and
\* whose session is stored, or the refresh token of a stored session.
GrantAccepted ==
    \/ /\ resp'.presented \in DOMAIN authCodes
       /\ authCodes[resp'.presented].expiresAt >= now
       /\ authCodes[resp'.presented].sessionId \in DOMAIN sessions
    \/ /\ resp'.presented # 0
       /\ \E k \in DOMAIN sessions : sessions[k].refreshToken = resp'.presented

C40_CodesReferToStoredSessions ==
    \A c \in DOMAIN authCodes :
        /\ authCodes[c].sessionId \in DOMAIN sessions
        /\ authCodes[c].expiresAt >= now =>
              handleToken([grant_type |-> "authorization_code", code |-> c,
                           code_verifier |-> EmptyStr,
                           refresh_token |-> 0]).resp.status = 200

\* After time has passed and a sweep has run, a code that is not expired is
\* still bound to a stored session.
C40_Witness ==
    /\ resp.ep = "janitor"
    /\ now > 0
    /\ \E c \in DOMAIN authCodes :
          /\ authCodes[c].expiresAt >= now
          /\ authCodes[c].sessionId \in DOMAIN sessions

----------------------------------------------------------------------------
(* The backend client's token handling (part_005:91-217), on one client that
   lives as long as its process *)

\* What the backend's token endpoint answers: whether response.ok, whether
\* the body carries a refresh_token, and expires_in (here in milliseconds):
\* one minute, ten minutes, a day.
TokenAnswers ==
    [ok : BOOLEAN, carriesRefresh : BOOLEAN, lifetime : {60000, 600000, 86400000}]

\* Lines 111-114 and 149-152: the fields after a token response is stored.
\* A body without refresh_token leaves refreshToken undefined (0).
StoreToken(c, answer) ==
    [accessToken |-> c.issued + 1,
     refreshToken |-> IF answer.carriesRefresh THEN c.issued + 2 ELSE 0,
     tokenExpiry |-> now + answer.lifetime,
     issued |-> c.issued + 2]

BackendCall(op, ok, token) == [op |-> op, ok |-> ok, token |-> token]

\* authenticate() (lines 91-115): the client afterwards, the backend calls
\* made, and the error thrown ("" for none).
authenticate(c, answer) ==
    IF ~answer.ok THEN
        [client |-> c,
         calls |-> << BackendCall("authenticate", FALSE, 0) >>,
         error |-> "Authentication failed"]
    ELSE
        [client |-> StoreToken(c, answer),
         calls |-> << BackendCall("authenticate", TRUE, c.issued + 1) >>,
         error |-> ""]

\* Faulty variant of lines 143-147: a rejected refresh throws instead of
\* falling back to authenticate().
refreshAccessToken_noFallback(c, refreshAnswer, authAnswer) ==
    IF c.refreshToken = 0 THEN
        [client |-> c, calls |-> << >>, error |-> "No refresh token available"]
    ELSE IF ~refreshAnswer.ok THEN
        [client |-> c,
         calls |-> << BackendCall("refresh", FALSE, 0) >>,
         error |-> "Token refresh failed"]
    ELSE
        [client |-> StoreToken(c, refreshAnswer),
         calls |-> << BackendCall("refresh", TRUE, c.issued + 1) >>,
         error |-> ""]

\* refreshAccessToken() (lines 120-153).
refreshAccessToken(c, refreshAnswer, authAnswer) ==
    IF c.refreshToken = 0 THEN
        [client |-> c, calls |-> << >>, error |-> "No refresh token available"]
    ELSE IF ~refreshAnswer.ok THEN
        LET a == authenticate(c, authAnswer)
        IN [a EXCEPT !.calls = << BackendCall("refresh", FALSE, 0) >> \o @]
    ELSE
        [client |-> StoreToken(c, refreshAnswer),
         calls |-> << BackendCall("refresh", TRUE, c.issued + 1) >>,
         error |-> ""]

\* ensureAuthenticated() (lines 158-169).
ensureAuthenticated(c, refreshAnswer, authAnswer) ==
    IF c.accessToken = 0 \/ c.tokenExpiry = 0 THEN
        authenticate(c, authAnswer)
    ELSE IF c.tokenExpiry < now + FIVE_MINUTES THEN
        refreshAccessToken(c, refreshAnswer, authAnswer)
    ELSE
        [client |-> c, calls |-> << >>, error |-> ""]

\* request() (lines 174-217): the API is called with the token the client
\* holds once ensureAuthenticated() has returned; a response that is not ok
\* throws.
request(c, refreshAnswer, authAnswer, apiOk) ==
    LET e == ensureAuthenticated(c, refreshAnswer, authAnswer)
    IN IF e.error # "" THEN e
       ELSE [client |-> e.client,
             calls |-> e.calls \o
                       << BackendCall("api", apiOk, e.client.accessToken) >>,
             error |-> IF apiOk THEN "" ELSE "API request failed"]

\* One API method of the client is called, and the backend answers.
ClientRequest ==
    \E refreshAnswer \in TokenAnswers, authAnswer \in TokenAnswers,
       apiOk \in BOOLEAN :
        LET r == request(caspioClient, refreshAnswer, authAnswer, apiOk)
        IN /\ r.client.issued <= 2 * MaxGrants
           /\ caspioClient' = r.client
           /\ resp' = [Response("request", 0, r.error) EXCEPT !.calls = r.calls]
           /\ UNCHANGED <<sessions, pendingAuths, authCodes, file, now, nextId,
                          inflight, ticks, made, redeemed, retiredAccess,
                          retiredRefresh, swept, owner, writable>>

\* Time passes between two requests: five minutes, or a day.
ClientWait ==
    \E d \in {FIVE_MINUTES, SESSION_TTL} :
        /\ ticks < MaxElapse
        /\ ticks' = ticks + 1
        /\ now' = now + d
        /\ resp' = Response("tick", 0, "")
        /\ UNCHANGED <<sessions, pendingAuths, authCodes, file, nextId,
                       inflight, made, redeemed, retiredAccess, retiredRefresh,
                       swept, owner, writable, caspioClient>>

NextClient ==
    \/ ClientRequest
    \/ ClientWait

SpecClient == Init /\ [][NextClient]_vars

\* C34: within one API request of the backend client no backend call is
\* made twice, and a call follows a failed call only when the failed call
\* is the token refresh and the call after it is one full authentication;
\* a rejected refresh is always followed by that authentication, and when
\* it succeeds the API is called next, once, with the token it obtained,
\* which the client then holds; any other failed call ends the request
\* with an error.
C34_RejectedRefreshIsTheOnlyRetry ==
    [][ resp'.ep = "request" =>
          LET calls == resp'.calls
              n == Len(calls)
          IN /\ \A i \in 1..n : \A j \in 1..n :
                    i # j => calls[i].op # calls[j].op
             /\ \A i \in 1..n :
                   ~calls[i].ok =>
                      IF calls[i].op = "refresh"
                      THEN i < n /\ calls[i + 1].op = "authenticate"
                      ELSE i = n /\ resp'.error # ""
             /\ \A i \in 1..n :
                   (calls[i].op = "authenticate" /\ calls[i].ok) =>
                      /\ n = i + 1
                      /\ calls[n].op = "api"
                      /\ calls[n].token = calls[i].token
                      /\ calls[i].token # caspioClient.accessToken
                      /\ caspioClient'.accessToken = calls[i].token ]_vars

\* A request has just refreshed, been rejected, authenticated again and
\* then called the API, which answered.
C34_Witness ==
    /\ resp.ep = "request"
    /\ resp.error = ""
    /\ Len(resp.calls) = 3
    /\ resp.calls[1].op = "refresh"
    /\ ~resp.calls[1].ok
    /\ resp.calls[3].op = "api"

\* C35: a request made while the client's access token is missing or
\* expires in less than 5 minutes first asks the backend for a new token
\* (refresh or full authentication), and calls the API only after that and
\* with the token obtained, whether or not the last token response carried
\* a refresh token.
C35_NearExpiryObtainsNewToken ==
    [][ ( /\ resp'.ep = "request"
          /\ \/ caspioClient.accessToken = 0
             \/ caspioClient.tokenExpiry - now < 300000 )
        => LET calls == resp'.calls
           IN /\ Len(calls) >= 1
              /\ calls[1].op \in {"refresh", "authenticate"}
              /\ \A i \in 1..Len(calls) :
                    calls[i].op = "api" =>
                       /\ i > 1
                       /\ calls[i - 1].ok
                       /\ calls[i].token = calls[i - 1].token ]_vars

====
